---- MODULE Spec2Model ----
(***************************************************************************)
(* The chat widget of the SkillsSpire site as a state machine.             *)
(*                                                                         *)
(* Two versions of the AIAssistant class are modelled:                     *)
(*   "stage"       src/app/static/ai-widget/ai-widget.js, whose            *)
(*                 questionnaire is context.testStage / handleCourseTest;  *)
(*   "testSystem"  the second class of src/unnamed/part_002, whose         *)
(*                 questionnaire is this.testSystem / processTestAnswer.   *)
(* The variable script says which of the two the page has loaded.          *)
(*                                                                         *)
(* A JavaScript string is the sequence of its UTF-16 code units, so that   *)
(* toLowerCase, includes, trim and the regular expressions are computed on *)
(* the characters as the engine computes them.  Every text literal is      *)
(* followed by a comment that shows it.                                    *)
(***************************************************************************)
EXTENDS Integers, Sequences, FiniteSets, TLC

VARIABLES
    script,        \* "stage" | "testSystem": the class the page runs
    context,       \* this.context
    testSystem,    \* this.testSystem (isActive, currentQuestion, userAnswers)
    chatHistory,   \* this.chatHistory
    inputValue,    \* this.input.value
    timers,        \* pending reply timers of sendMessage, in scheduling order
    typing,        \* number of #typing-indicator elements in this.messages
    quickTimers,   \* pending setTimeout(showQuickReplies) timers
    quickReplies,  \* number of .ai-quick-replies blocks in this.messages
    lastTurn,      \* record of the last call of generateAIResponse
    sessions,      \* AIAssistant objects made by the same realm, and its heap
    assist,        \* #assist-root of main.js: the chat box and the requests
    theme,         \* the theme toggle of main.js
    mascot,        \* the mascot controller of main.js
    home,          \* home.js: the test popup and the email subscription
    game           \* error.js: the dino mini-game

\* The chat widget of a page
chat == <<script, context, testSystem, chatHistory, inputValue, timers, typing,
          quickTimers, quickReplies, lastTurn>>

\* The other scripts of a page
others == <<sessions, assist, theme, mascot, home, game>>

vars == <<script, context, testSystem, chatHistory, inputValue, timers, typing,
          quickTimers, quickReplies, lastTurn, sessions, assist, theme, mascot,
          home, game>>

\* The value of the variables of a script the page does not load
absent == "absent"

\* A page without the scripts of main.js and with one AIAssistant
noPage ==
    /\ sessions = absent
    /\ assist = absent
    /\ theme = absent
    /\ mascot = absent
    /\ home = absent
    /\ game = absent

\* A page without the chat widget
noChat ==
    /\ script = absent
    /\ context = absent
    /\ testSystem = absent
    /\ chatHistory = absent
    /\ inputValue = absent
    /\ timers = absent
    /\ typing = absent
    /\ quickTimers = absent
    /\ quickReplies = absent
    /\ lastTurn = absent

----------------------------------------------------------------------------
(* Bounds of the model. *)

\* Messages a conversation may send beyond one per questionnaire step
ExtraTurns == 1

\* Messages a conversation about intents may send
IntentTurns == 2

\* Messages a conversation may send from the last step of the questionnaire
LastStepTurns == 1
RestartTurns == 2

\* Messages a user who does not wait for the replies may send
OverlapTurns == 3

\* Questions submitted in the form of the assist panel
AssistTurns == 2

\* Jumps of the dino
GameJumps == 5

\* Submissions of the email form of the home page
HomeTurns == 3

\* Clicks, changes of the system scheme and loads of a page
ThemeEvents == 10

\* AIAssistant objects of one realm, and the messages they handle in all
Engines == 2
SessionTurns == 4

----------------------------------------------------------------------------
(* JavaScript values. *)

\* null in a field that holds an intent tag
null == "null"

\* null / undefined where a string is expected: no string has a negative unit
nullText == <<-1>>

undefinedText == <<-2>>

\* context.testStage: null (ai-widget.js:62); the stages are 1, 2, 3
nullStage == -1

\* {}.  An object is a function from its own keys.
emptyObject == [k \in {} |-> 0]

Put(obj, key, val) ==
    [k \in (DOMAIN obj) \cup {key} |-> IF k = key THEN val ELSE obj[k]]

Has(obj, key) == key \in DOMAIN obj

----------------------------------------------------------------------------
(* Strings. *)

Min(S) == CHOOSE x \in S : \A y \in S : x <= y

Max(S) == CHOOSE x \in S : \A y \in S : x >= y

\* The text in the case it has
sameCase(s) == s

\* String.prototype.toLowerCase on one code unit: A-Z, the Cyrillic capitals
\* U+0410..U+042F and U+0400..U+040F
Lower(c) ==
    IF c \in 65..90 \/ c \in 1040..1071 THEN c + 32
    ELSE IF c \in 1024..1039 THEN c + 80
    ELSE c

\* String.prototype.toUpperCase on one code unit
Upper(c) ==
    IF c \in 97..122 \/ c \in 1072..1103 THEN c - 32
    ELSE IF c \in 1104..1119 THEN c - 80
    ELSE c

toLowerCase(s) == [i \in 1..Len(s) |-> Lower(s[i])]

\* k occurs in s at position i
startsAt(s, k, i) ==
    /\ i >= 1
    /\ i + Len(k) - 1 <= Len(s)
    /\ \A j \in 1..Len(k) : s[i + j - 1] = k[j]

\* String.prototype.includes
includes(s, k) == \E i \in 1..(Len(s) - Len(k) + 1) : startsAt(s, k, i)

\* White space of trim() and of \s
WhiteSpace ==
    {9, 10, 11, 12, 13, 32, 160, 5760, 8232, 8233, 8239, 8287, 12288, 65279}
        \cup (8192..8202)

\* Line terminators, which the regular expression dot does not match
LineTerminator == {10, 13, 8232, 8233}

\* \d
Digit == 48..57

\* [а-яa-z]
Letter == (1072..1103) \cup (97..122)

\* The text as it is
untrimmed(s) == s

\* String.prototype.trim
trim(s) ==
    LET kept == {i \in 1..Len(s) : s[i] \notin WhiteSpace}
    IN  IF kept = {} THEN <<>> ELSE SubSeq(s, Min(kept), Max(kept))

\* Array.prototype.join
RECURSIVE join(_, _)
join(parts, sep) ==
    IF Len(parts) = 0 THEN <<>>
    ELSE IF Len(parts) = 1 THEN parts[1]
    ELSE parts[1] \o sep \o join(Tail(parts), sep)

\* The longest run of units of class cls that starts at position i of s
RECURSIVE runFrom(_, _, _)
runFrom(s, cls, i) ==
    IF i <= Len(s) /\ s[i] \in cls THEN <<s[i]>> \o runFrom(s, cls, i + 1)
    ELSE <<>>

\* A regular expression k1.*k2...: the literals of parts in this order, with
\* anything but a line terminator between them, from position i on
RECURSIVE matchRest(_, _, _)
matchRest(parts, s, i) ==
    IF Len(parts) = 0 THEN TRUE
    ELSE \E j \in i..Len(s) :
            /\ startsAt(s, parts[1], j)
            /\ \A g \in i..(j - 1) : s[g] \notin LineTerminator
            /\ matchRest(Tail(parts), s, j + Len(parts[1]))

testLiterals(parts, s) ==
    \E i \in 1..Len(s) :
        /\ startsAt(s, parts[1], i)
        /\ matchRest(Tail(parts), s, i + Len(parts[1]))

\* A regular expression k\s+[а-яa-z]+
testSpacedWord(k, s) ==
    \E i \in 1..Len(s) :
        /\ startsAt(s, k, i)
        /\ LET sp == runFrom(s, WhiteSpace, i + Len(k))
               after == i + Len(k) + Len(sp)
           IN  Len(sp) >= 1 /\ after <= Len(s) /\ s[after] \in Letter

\* A pattern of analyzeIntent: alternatives of literals joined by .* and
\* alternatives of the form k\s+[а-яa-z]+
test(pattern, s) ==
    \/ \E a \in 1..Len(pattern.alts) : testLiterals(pattern.alts[a], s)
    \/ \E a \in 1..Len(pattern.spaced) : testSpacedWord(pattern.spaced[a], s)

\* s.match(/k\s+([а-яa-z]+)/i)[1] for a lower-case s, nullText if no match
matchSpacedWord(k, s) ==
    LET hits == {i \in 1..Len(s) :
                    /\ startsAt(s, k, i)
                    /\ LET sp == runFrom(s, WhiteSpace, i + Len(k))
                           after == i + Len(k) + Len(sp)
                       IN  Len(sp) >= 1 /\ after <= Len(s) /\ s[after] \in Letter}
    IN  IF hits = {} THEN nullText
        ELSE LET i == Min(hits)
                 sp == runFrom(s, WhiteSpace, i + Len(k))
             IN  runFrom(s, Letter, i + Len(k) + Len(sp))

\* s.match(/\d+/): the first run of digits, nullText if there is none
matchDigits(s) ==
    LET hits == {i \in 1..Len(s) : s[i] \in Digit}
    IN  IF hits = {} THEN nullText ELSE runFrom(s, Digit, Min(hits))

\* parseInt of a run of digits
RECURSIVE parseInt(_)
parseInt(d) ==
    IF Len(d) = 0 THEN 0
    ELSE 10 * parseInt(SubSeq(d, 1, Len(d) - 1)) + (d[Len(d)] - 48)

----------------------------------------------------------------------------
(* The data of the constructor. *)

knowledgeBase == <<
    [title |-> <<1041, 1080, 1079, 1085, 1077, 1089, 45, 1072, 1085, 1072, 1083, 1080,
            1079, 32, 1080, 32, 1087, 1088, 1080, 1085, 1103, 1090, 1080, 1077,
            32, 1088, 1077, 1096, 1077, 1085, 1080, 1081>> (* "Бизнес-анализ и принятие решений" *),
     category |-> <<1041, 1080, 1079, 1085, 1077, 1089, 45, 1072, 1085, 1072, 1083, 1080,
            1090, 1080, 1082, 1072>> (* "Бизнес-аналитика" *),
     price |-> <<49, 53, 32, 48, 48, 48, 32, 8376>> (* "15 000 ₸" *),
     originalPrice |-> <<49, 56, 32, 48, 48, 48, 32, 8376>> (* "18 000 ₸" *),
     description |-> <<1053, 1072, 1091, 1095, 1080, 1090, 1077, 1089, 1100, 32, 1087,
            1088, 1080, 1085, 1080, 1084, 1072, 1090, 1100, 32, 1101, 1092,
            1092, 1077, 1082, 1090, 1080, 1074, 1085, 1099, 1077, 32, 1073,
            1080, 1079, 1085, 1077, 1089, 45, 1088, 1077, 1096, 1077, 1085,
            1080, 1103, 32, 1085, 1072, 32, 1086, 1089, 1085, 1086, 1074, 1077,
            32, 1076, 1072, 1085, 1085, 1099, 1093, 46, 32, 1040, 1085, 1072,
            1083, 1080, 1079, 32, 1088, 1099, 1085, 1082, 1072, 44, 32, 1086,
            1094, 1077, 1085, 1082, 1072, 32, 1088, 1080, 1089, 1082, 1086,
            1074, 32, 1080, 32, 1087, 1086, 1089, 1090, 1088, 1086, 1077, 1085,
            1080, 1077, 32, 1092, 1080, 1085, 1072, 1085, 1089, 1086, 1074,
            1099, 1093, 32, 1084, 1086, 1076, 1077, 1083, 1077, 1081, 46>> (* "Научитесь принимать эффективные бизнес-решения на основе данных. Анализ рынка, оценка рисков и построение финансовых моделей." *),
     rating |-> <<52, 46, 56>> (* "4.8" *),
     features |-> << <<1040, 1085, 1072, 1083, 1080, 1079, 32, 1076, 1072, 1085, 1085,
            1099, 1093>> (* "Анализ данных" *), <<1060, 1080, 1085, 1072, 1085, 1089, 1086, 1074,
            1099, 1077, 32, 1084, 1086, 1076, 1077, 1083, 1080>> (* "Финансовые модели" *), <<1054, 1094, 1077, 1085, 1082,
            1072, 32, 1088, 1080, 1089, 1082, 1086, 1074>> (* "Оценка рисков" *),
                     <<1055, 1088, 1080, 1085, 1103, 1090, 1080, 1077, 32, 1088, 1077,
            1096, 1077, 1085, 1080, 1081>> (* "Принятие решений" *) >>,
     duration |-> <<54, 32, 1085, 1077, 1076, 1077, 1083, 1100>> (* "6 недель" *),
     level |-> <<1053, 1072, 1095, 1080, 1085, 1072, 1102, 1097, 1080, 1081>> (* "Начинающий" *)],
    [title |-> <<1057, 1090, 1088, 1072, 1090, 1077, 1075, 1080, 1095, 1077, 1089, 1082,
            1080, 1081, 32, 1084, 1077, 1085, 1077, 1076, 1078, 1084, 1077,
            1085, 1090, 32, 1080, 32, 1073, 1080, 1079, 1085, 1077, 1089, 45,
            1087, 1083, 1072, 1085, 1080, 1088, 1086, 1074, 1072, 1085, 1080,
            1077>> (* "Стратегический менеджмент и бизнес-планирование" *),
     category |-> <<1057, 1090, 1088, 1072, 1090, 1077, 1075, 1080, 1095, 1077, 1089, 1082,
            1080, 1081, 32, 1084, 1077, 1085, 1077, 1076, 1078, 1084, 1077,
            1085, 1090>> (* "Стратегический менеджмент" *),
     price |-> <<49, 55, 32, 48, 48, 48, 32, 8376>> (* "17 000 ₸" *),
     originalPrice |-> <<50, 48, 32, 48, 48, 48, 32, 8376>> (* "20 000 ₸" *),
     description |-> <<1054, 1089, 1074, 1086, 1081, 1090, 1077, 32, 1080, 1085, 1089,
            1090, 1088, 1091, 1084, 1077, 1085, 1090, 1099, 32, 1089, 1090,
            1088, 1072, 1090, 1077, 1075, 1080, 1095, 1077, 1089, 1082, 1086,
            1075, 1086, 32, 1072, 1085, 1072, 1083, 1080, 1079, 1072, 32, 1080,
            32, 1087, 1083, 1072, 1085, 1080, 1088, 1086, 1074, 1072, 1085,
            1080, 1103, 32, 1076, 1083, 1103, 32, 1091, 1089, 1090, 1086, 1081,
            1095, 1080, 1074, 1086, 1075, 1086, 32, 1088, 1086, 1089, 1090,
            1072, 32, 1074, 1072, 1096, 1077, 1081, 32, 1082, 1086, 1084, 1087,
            1072, 1085, 1080, 1080, 46, 32, 1054, 1090, 32, 83, 87, 79, 84, 45,
            1072, 1085, 1072, 1083, 1080, 1079, 1072, 32, 1076, 1086, 32, 1088,
            1072, 1079, 1088, 1072, 1073, 1086, 1090, 1082, 1080, 32, 75, 80,
            73, 46>> (* "Освойте инструменты стратегического анализа и планирования для устойчивого роста вашей компании. От SWOT-анализа до разработки KPI." *),
     rating |-> <<52, 46, 56>> (* "4.8" *),
     features |-> << <<83, 87, 79, 84, 45, 1072, 1085, 1072, 1083, 1080, 1079>> (* "SWOT-анализ" *), <<75, 80, 73, 32, 1088, 1072, 1079, 1088, 1072, 1073,
            1086, 1090, 1082, 1072>> (* "KPI разработка" *), <<1041, 1080, 1079, 1085, 1077, 1089,
            45, 1087, 1083, 1072, 1085, 1080, 1088, 1086, 1074, 1072, 1085,
            1080, 1077>> (* "Бизнес-планирование" *),
                     <<1057, 1090, 1088, 1072, 1090, 1077, 1075, 1080, 1095, 1077, 1089,
            1082, 1080, 1081, 32, 1072, 1085, 1072, 1083, 1080, 1079>> (* "Стратегический анализ" *) >>,
     duration |-> <<56, 32, 1085, 1077, 1076, 1077, 1083, 1100>> (* "8 недель" *),
     level |-> <<1057, 1088, 1077, 1076, 1085, 1080, 1081>> (* "Средний" *)],
    [title |-> <<1060, 1080, 1085, 1072, 1085, 1089, 1086, 1074, 1072, 1103, 32, 1075,
            1088, 1072, 1084, 1086, 1090, 1085, 1086, 1089, 1090, 1100, 32,
            1076, 1083, 1103, 32, 1088, 1091, 1082, 1086, 1074, 1086, 1076,
            1080, 1090, 1077, 1083, 1077, 1081>> (* "Финансовая грамотность для руководителей" *),
     category |-> <<1059, 1087, 1088, 1072, 1074, 1083, 1077, 1085, 1080, 1077, 32, 1092,
            1080, 1085, 1072, 1085, 1089, 1072, 1084, 1080>> (* "Управление финансами" *),
     price |-> <<49, 50, 32, 48, 48, 48, 32, 8376>> (* "12 000 ₸" *),
     originalPrice |-> <<49, 53, 32, 48, 48, 48, 32, 8376>> (* "15 000 ₸" *),
     description |-> <<1053, 1072, 1091, 1095, 1080, 1090, 1077, 1089, 1100, 32, 1095,
            1080, 1090, 1072, 1090, 1100, 32, 1080, 32, 1072, 1085, 1072, 1083,
            1080, 1079, 1080, 1088, 1086, 1074, 1072, 1090, 1100, 32, 1092,
            1080, 1085, 1072, 1085, 1089, 1086, 1074, 1091, 1102, 32, 1086,
            1090, 1095, 1077, 1090, 1085, 1086, 1089, 1090, 1100, 44, 32, 1095,
            1090, 1086, 1073, 1099, 32, 1087, 1088, 1080, 1085, 1080, 1084,
            1072, 1090, 1100, 32, 1086, 1073, 1086, 1089, 1085, 1086, 1074,
            1072, 1085, 1085, 1099, 1077, 32, 1091, 1087, 1088, 1072, 1074,
            1083, 1077, 1085, 1095, 1077, 1089, 1082, 1080, 1077, 32, 1088,
            1077, 1096, 1077, 1085, 1080, 1103, 32, 1080, 32, 1075, 1086, 1074,
            1086, 1088, 1080, 1090, 1100, 32, 1089, 32, 1092, 1080, 1085, 1072,
            1085, 1089, 1080, 1089, 1090, 1072, 1084, 1080, 32, 1085, 1072, 32,
            1086, 1076, 1085, 1086, 1084, 32, 1103, 1079, 1099, 1082, 1077, 46>> (* "Научитесь читать и анализировать финансовую отчетность, чтобы принимать обоснованные управленческие решения и говорить с финансистами на одном языке." *),
     rating |-> <<52, 46, 56>> (* "4.8" *),
     features |-> << <<1060, 1080, 1085, 1072, 1085, 1089, 1086, 1074, 1072, 1103, 32,
            1086, 1090, 1095, 1077, 1090, 1085, 1086, 1089, 1090, 1100>> (* "Финансовая отчетность" *), <<1059, 1087, 1088, 1072, 1074, 1083, 1077,
            1085, 1095, 1077, 1089, 1082, 1080, 1077, 32, 1088, 1077, 1096,
            1077, 1085, 1080, 1103>> (* "Управленческие решения" *),
                     <<1041, 1102, 1076, 1078, 1077, 1090, 1080, 1088, 1086, 1074, 1072,
            1085, 1080, 1077>> (* "Бюджетирование" *), <<1040, 1085, 1072, 1083, 1080, 1079, 32, 1080,
            1085, 1074, 1077, 1089, 1090, 1080, 1094, 1080, 1081>> (* "Анализ инвестиций" *) >>,
     duration |-> <<52, 32, 1085, 1077, 1076, 1077, 1083, 1080>> (* "4 недели" *),
     level |-> <<1053, 1072, 1095, 1080, 1085, 1072, 1102, 1097, 1080, 1081>> (* "Начинающий" *)] >>

companyInfo ==
    [name |-> <<83, 107, 105, 108, 108, 115, 83, 112, 105, 114, 101>> (* "SkillsSpire" *),
     description |-> <<1040, 1082, 1072, 1076, 1077, 1084, 1080, 1095, 1077, 1089, 1082,
            1086, 1077, 32, 1082, 1072, 1095, 1077, 1089, 1090, 1074, 1086, 32,
            1074, 32, 1089, 1086, 1074, 1088, 1077, 1084, 1077, 1085, 1085,
            1086, 1084, 32, 1092, 1086, 1088, 1084, 1072, 1090, 1077, 46, 32,
            1050, 1083, 1072, 1089, 1089, 1080, 1082, 1072, 44, 32, 1087, 1077,
            1088, 1077, 1086, 1089, 1084, 1099, 1089, 1083, 1077, 1085, 1085,
            1072, 1103, 32, 1076, 1083, 1103, 32, 1073, 1091, 1076, 1091, 1097,
            1077, 1075, 1086, 46>> (* "Академическое качество в современном формате. Классика, переосмысленная для будущего." *),
     mission |-> <<1057, 1086, 1077, 1076, 1080, 1085, 1103, 1077, 1084, 32, 1082, 1083,
            1072, 1089, 1089, 1080, 1095, 1077, 1089, 1082, 1086, 1077, 32,
            1091, 1085, 1080, 1074, 1077, 1088, 1089, 1080, 1090, 1077, 1090,
            1089, 1082, 1086, 1077, 32, 1086, 1073, 1088, 1072, 1079, 1086,
            1074, 1072, 1085, 1080, 1077, 32, 1089, 32, 1089, 1086, 1074, 1088,
            1077, 1084, 1077, 1085, 1085, 1099, 1084, 1080, 32, 1073, 1080,
            1079, 1085, 1077, 1089, 45, 1079, 1072, 1076, 1072, 1095, 1072,
            1084, 1080>> (* "Соединяем классическое университетское образование с современными бизнес-задачами" *),
     email |-> <<115, 107, 105, 108, 108, 115, 115, 112, 105, 114, 101, 64, 103, 109, 97,
            105, 108, 46, 99, 111, 109>> (* "skillsspire@gmail.com" *),
     phone |-> <<43, 55, 32, 40, 55, 48, 49, 41, 32, 50, 57, 50, 45, 53, 53, 45, 54, 56>> (* "+7 (701) 292-55-68" *),
     instagram |-> <<64, 115, 107, 105, 108, 108, 115, 115, 112, 105, 114, 101>> (* "@skillsspire" *),
     linkedin |-> <<83, 107, 105, 108, 108, 83, 112, 105, 114, 101, 32, 79, 102, 102, 105,
            99, 105, 97, 108>> (* "SkillSpire Official" *),
     telegram |-> <<64, 83, 107, 105, 108, 108, 115, 83, 112, 105, 114, 101>> (* "@SkillsSpire" *),
     responseTime |-> <<50, 52, 32, 1095, 1072, 1089, 1072, 32, 1074, 32, 1088, 1072, 1073,
            1086, 1095, 1080, 1077, 32, 1076, 1085, 1080, 32, 40, 1055, 1085,
            45, 1055, 1090, 32, 1089, 32, 57, 58, 48, 48, 32, 1076, 1086, 32,
            49, 56, 58, 48, 48, 41>> (* "24 часа в рабочие дни (Пн-Пт с 9:00 до 18:00)" *),
     certificates |-> <<1073, 1086, 1083, 1077, 1077, 32, 49, 48, 48, 32, 1074, 1099, 1076,
            1072, 1085, 1085, 1099, 1093, 32, 1089, 1077, 1088, 1090, 1080,
            1092, 1080, 1082, 1072, 1090, 1086, 1074>> (* "более 100 выданных сертификатов" *)]

\* knowledgeBase[i] where there is no such element: reading a field of it throws
undefinedCourse ==
    [title |-> undefinedText, category |-> undefinedText, price |-> undefinedText,
     originalPrice |-> undefinedText, description |-> undefinedText,
     rating |-> undefinedText, features |-> <<>>, duration |-> undefinedText,
     level |-> undefinedText]

\* knowledgeBase[i] of the source is Course(i): JavaScript counts from 0
Course(i) ==
    IF i \in 0..(Len(knowledgeBase) - 1) THEN knowledgeBase[i + 1] ELSE undefinedCourse

formatCourse(course) ==
    <<55357, 56534, 32>> (* "📖 " *) \o course.title \o <<10>> (* "\n" *) \o course.description \o <<10, 55357, 56496, 32>> (* "\n💰 " *) \o course.price
        \o <<32, 124, 32, 9201, 65039, 32>> (* " | ⏱️ " *) \o course.duration \o <<32, 124, 32, 11088, 32>> (* " | ⭐ " *) \o course.rating

----------------------------------------------------------------------------
(* What the user may type.  A click on a quick reply types the text of its   *)
(* button without the emoji and sends it.                                    *)

RawInputs ==
    { <<1055, 1088, 1086, 1081, 1090, 1080, 32, 1090, 1077, 1089, 1090, 32, 1085, 1072, 32,
        1082, 1091, 1088, 1089>> (* "Пройти тест на курс" *),
      <<1053, 1072, 1095, 1080, 1085, 1072, 1102, 1097, 1080, 1081>> (* "Начинающий" *),
      <<1092, 1080, 1085, 1072, 1085, 1089, 1099>> (* "финансы" *),
      <<1091, 1087, 1088, 1072, 1074, 1083, 1077, 1085, 1080, 1077, 32, 1083, 1102, 1076,
        1100, 1084, 1080, 44, 32, 56, 32, 1085, 1077, 1076, 1077, 1083, 1100>> (* "управление людьми, 8 недель" *),
      <<54>> (* "6" *),
      <<1087, 1088, 1080, 1074, 1077, 1090, 44, 32, 1084, 1077, 1085, 1103, 32, 1079, 1086,
        1074, 1091, 1090, 32, 1072, 1085, 1085, 1072>> (* "привет, меня зовут анна" *),
      <<97, 115, 100, 107, 106, 97, 115, 100, 106>> (* "asdkjasdj" *),
      <<32, 32, 32>> (* "   " *),
      <<>> }

RawInputsTS ==
    { <<1055, 1088, 1086, 1081, 1090, 1080, 32, 1090, 1077, 1089, 1090, 32, 1085, 1072, 32,
        1082, 1091, 1088, 1089>> (* "Пройти тест на курс" *),
      <<49>> (* "1" *),
      <<50>> (* "2" *),
      <<56, 32, 1085, 1077, 1076, 1077, 1083, 1100>> (* "8 недель" *),
      <<32, 32, 32>> (* "   " *),
      <<>> }

\* The quick replies, the scenarios of the specification, messages in which
\* several intents meet and an answer in words that holds a number
IntentInputs ==
    { <<1055, 1086, 1076, 1086, 1073, 1088, 1072, 1090, 1100, 32, 1082, 1091, 1088, 1089,
        32, 1087, 1086, 32, 1094, 1077, 1083, 1103, 1084>> (* "Подобрать курс по целям" *),
      <<1055, 1088, 1086, 1081, 1090, 1080, 32, 1090, 1077, 1089, 1090, 32, 1085, 1072, 32,
        1082, 1091, 1088, 1089>> (* "Пройти тест на курс" *),
      <<1057, 1090, 1086, 1080, 1084, 1086, 1089, 1090, 1100, 32, 1080, 32, 1089, 1082,
        1080, 1076, 1082, 1080>> (* "Стоимость и скидки" *),
      <<1057, 1077, 1088, 1090, 1080, 1092, 1080, 1082, 1072, 1090, 1099, 32, 1080, 32,
        1076, 1080, 1087, 1083, 1086, 1084, 1099>> (* "Сертификаты и дипломы" *),
      <<1050, 1072, 1082, 32, 1087, 1086, 1084, 1086, 1075, 1072, 1077, 1090, 32, 1074, 32,
        1082, 1072, 1088, 1100, 1077, 1088, 1077>> (* "Как помогает в карьере" *),
      <<1050, 1090, 1086, 32, 1087, 1088, 1077, 1087, 1086, 1076, 1072, 1105, 1090>> (* "Кто преподаёт" *),
      <<1050, 1086, 1085, 1090, 1072, 1082, 1090, 1099, 32, 1087, 1086, 1076, 1076, 1077,
        1088, 1078, 1082, 1080>> (* "Контакты поддержки" *),
      <<1054, 32, 1082, 1086, 1084, 1087, 1072, 1085, 1080, 1080, 32, 83, 107, 105, 108,
        108, 115, 83, 112, 105, 114, 101>> (* "О компании SkillsSpire" *),
      <<1087, 1088, 1080, 1074, 1077, 1090>> (* "привет" *),
      <<1089, 1082, 1086, 1083, 1100, 1082, 1086, 32, 1089, 1090, 1086, 1080, 1090, 32,
        1082, 1091, 1088, 1089>> (* "сколько стоит курс" *),
      <<97, 115, 100, 107, 106, 97, 115, 100, 106>> (* "asdkjasdj" *),
      <<1055, 1088, 1080, 1074, 1077, 1090, 33, 32, 1052, 1077, 1085, 1103, 32, 1079, 1086,
        1074, 1091, 1090, 32, 1040, 1085, 1085, 1072>> (* "Привет! Меня зовут Анна" *),
      <<1087, 1088, 1080, 1074, 1077, 1090, 44, 32, 1089, 1087, 1072, 1089, 1080, 1073,
        1086, 32, 1080, 32, 1087, 1086, 1082, 1072>> (* "привет, спасибо и пока" *),
      <<1089, 1087, 1072, 1089, 1080, 1073, 1086, 44, 32, 1087, 1086, 1082, 1072>> (* "спасибо, пока" *),
      <<1087, 1086, 1082, 1072, 44, 32, 1082, 1072, 1082, 1080, 1077, 32, 1077, 1089, 1090,
        1100, 32, 1082, 1091, 1088, 1089, 1099, 63>> (* "пока, какие есть курсы?" *),
      <<1082, 1091, 1088, 1089, 1099, 32, 1076, 1083, 1103, 32, 1082, 1072, 1088, 1100,
        1077, 1088, 1099>> (* "курсы для карьеры" *),
      <<1094, 1077, 1085, 1072, 32, 1080, 32, 1082, 1086, 1085, 1090, 1072, 1082, 1090, 1099>> (* "цена и контакты" *),
      <<1103, 32, 1093, 1086, 1095, 1091, 32, 1074, 32, 1092, 1080, 1085, 1072, 1085, 1089,
        1099>> (* "я хочу в финансы" *),
      <<1082, 1090, 1086, 32, 1074, 1077, 1076, 1077, 1090, 32, 1089, 1090, 1088, 1072,
        1090, 1077, 1075, 1080, 1102, 63>> (* "кто ведет стратегию?" *),
      <<32, 32, 1055, 1056, 1048, 1042, 1045, 1058, 32, 32>> (* "  ПРИВЕТ  " *),
      <<1087, 1088, 1080, 1074, 1077, 1090, 44, 32, 1085, 1091, 1078, 1077, 1085, 32, 1090,
        1077, 1089, 1090>> (* "привет, нужен тест" *),
      <<1090, 1077, 1089, 1090, 32, 1087, 1086, 32, 1092, 1080, 1085, 1072, 1085, 1089,
        1072, 1084>> (* "тест по финансам" *),
      <<1095, 1090, 1086, 32, 1087, 1086, 1089, 1086, 1074, 1077, 1090, 1091, 1077, 1090,
        1077, 63>> (* "что посоветуете?" *),
      <<1062, 1077, 1085, 1072, 32, 1082, 1091, 1088, 1089, 1072, 32, 1087, 1086, 32, 1089,
        1090, 1088, 1072, 1090, 1077, 1075, 1080, 1080, 63>> (* "Цена курса по стратегии?" *),
      <<1053, 1072, 1095, 1080, 1085, 1072, 1102, 1097, 1080, 1081, 44, 32, 50, 32, 1075,
        1086, 1076, 1072, 32, 1086, 1087, 1099, 1090, 1072>> (* "Начинающий, 2 года опыта" *) }

\* The texts sendMessage passes on
Texts == {trim(raw) : raw \in RawInputs \cup RawInputsTS \cup IntentInputs} \ {<<>>}

----------------------------------------------------------------------------
(* ai-widget.js: the questionnaire. *)

question1 == <<55357, 56541, 32, 1054, 1090, 1083, 1080, 1095, 1085, 1086, 33, 32, 1044,
            1072, 1074, 1072, 1081, 1090, 1077, 32, 1087, 1086, 1076, 1073,
            1077, 1088, 1077, 1084, 32, 1082, 1091, 1088, 1089, 46, 10, 1042,
            1086, 1087, 1088, 1086, 1089, 32, 49, 58, 32, 1042, 1072, 1096, 32,
            1091, 1088, 1086, 1074, 1077, 1085, 1100, 32, 8212, 32, 1085, 1072,
            1095, 1080, 1085, 1072, 1102, 1097, 1080, 1081, 32, 1080, 1083,
            1080, 32, 1086, 1087, 1099, 1090, 1085, 1099, 1081, 63>> (* "📝 Отлично! Давайте подберем курс.\nВопрос 1: Ваш уровень — начинающий или опытный?" *)

question2 == <<1042, 1086, 1087, 1088, 1086, 1089, 32, 50, 58, 32, 1041, 1086, 1083, 1100,
            1096, 1077, 32, 1080, 1085, 1090, 1077, 1088, 1077, 1089, 1091,
            1077, 1090, 32, 1091, 1087, 1088, 1072, 1074, 1083, 1077, 1085,
            1080, 1077, 32, 1083, 1102, 1076, 1100, 1084, 1080, 32, 1080, 1083,
            1080, 32, 1088, 1072, 1073, 1086, 1090, 1072, 32, 1089, 32, 1092,
            1080, 1085, 1072, 1085, 1089, 1072, 1084, 1080, 63>> (* "Вопрос 2: Больше интересует управление людьми или работа с финансами?" *)

question3 == <<1042, 1086, 1087, 1088, 1086, 1089, 32, 51, 58, 32, 1057, 1082, 1086, 1083,
            1100, 1082, 1086, 32, 1074, 1088, 1077, 1084, 1077, 1085, 1080, 32,
            1075, 1086, 1090, 1086, 1074, 1099, 32, 1091, 1076, 1077, 1083,
            1103, 1090, 1100, 32, 1086, 1073, 1091, 1095, 1077, 1085, 1080,
            1102, 63, 32, 40, 52, 44, 32, 54, 32, 1080, 1083, 1080, 32, 56, 32,
            1085, 1077, 1076, 1077, 1083, 1100, 41>> (* "Вопрос 3: Сколько времени готовы уделять обучению? (4, 6 или 8 недель)" *)

\* The course by the track, then adjusted by the weeks
recommendedCourseByWeeks(testAnswers) ==
    IF Has(testAnswers, "duration") /\ testAnswers["duration"] = 8 THEN Course(1)
    ELSE IF Has(testAnswers, "track") /\ testAnswers["track"] = "finance"
         THEN Course(2)
    ELSE IF Has(testAnswers, "track") /\ testAnswers["track"] = "management"
         THEN Course(1)
    ELSE Course(0)

\* The course by the track, counting the records from 1
recommendedCourseFromOne(testAnswers) ==
    IF Has(testAnswers, "track") /\ testAnswers["track"] = "finance" THEN Course(3)
    ELSE IF Has(testAnswers, "track") /\ testAnswers["track"] = "management"
         THEN Course(2)
    ELSE Course(1)

\* let recommended of the last step: the course by testAnswers.track
recommendedCourse(testAnswers) ==
    IF Has(testAnswers, "track") /\ testAnswers["track"] = "finance" THEN Course(2)
    ELSE IF Has(testAnswers, "track") /\ testAnswers["track"] = "management"
         THEN Course(1)
    ELSE Course(0)

recommendationText(course) ==
    <<9989, 32, 1055, 1086, 32, 1074, 1072, 1096, 1080, 1084, 32, 1086, 1090, 1074, 1077,
      1090, 1072, 1084, 32, 1087, 1086, 1076, 1093, 1086, 1076, 1080, 1090, 32, 1082,
      1091, 1088, 1089, 58, 10, 10>> (* "✅ По вашим ответам подходит курс:\n\n" *) \o formatCourse(course)
        \o <<10, 10, 1061, 1086, 1090, 1080, 1090, 1077, 32, 1079, 1072, 1087, 1080, 1089,
            1072, 1090, 1100, 1089, 1103, 32, 1087, 1088, 1103, 1084, 1086, 32,
            1089, 1077, 1081, 1095, 1072, 1089, 63>> (* "\n\nХотите записаться прямо сейчас?" *)

\* this.context.testAnswers.level of stage 1
levelOf(answer) ==
    IF includes(toLowerCase(answer), <<1085, 1072, 1095>> (* "нач" *)) THEN "beginner" ELSE "advanced"

\* The track with finance as the answer of last resort
trackOfFinanceFirst(answer) ==
    IF includes(toLowerCase(answer), <<1091, 1087, 1088, 1072, 1074>> (* "управ" *)) THEN "management"
    ELSE IF includes(toLowerCase(answer), <<1072, 1085, 1072, 1083, 1080, 1090>> (* "аналит" *)) THEN "analytics"
    ELSE "finance"

\* this.context.testAnswers.track of stage 2
trackOf(answer) ==
    IF includes(toLowerCase(answer), <<1092, 1080, 1085, 1072, 1085, 1089>> (* "финанс" *)) THEN "finance"
    ELSE IF includes(toLowerCase(answer), <<1091, 1087, 1088, 1072, 1074>> (* "управ" *)) THEN "management"
    ELSE "analytics"

\* this.context.testAnswers.duration of stage 3
durationOf(answer) ==
    IF matchDigits(answer) # nullText THEN parseInt(matchDigits(answer)) ELSE 6

\* The value handleCourseTest returns at the last step, undefinedText if the
\* course is undefined and reading its title throws
lastReply(answers) ==
    IF recommendedCourse(answers) = undefinedCourse THEN undefinedText
    ELSE recommendationText(recommendedCourse(answers))

\* handleCourseTest counting the stages on instead of ending at the third
handleCourseTestCountsOn(ctx, answer) ==
    IF ctx.testStage = nullStage \/ ctx.testStage = 0 THEN
        [context |-> [ctx EXCEPT !.testStage = 1],
         reply |-> question1, threw |-> FALSE]
    ELSE IF ctx.testStage = 1 THEN
        [context |-> [ctx EXCEPT !.testAnswers = Put(@, "level", levelOf(answer)),
                                 !.testStage = @ + 1],
         reply |-> question2, threw |-> FALSE]
    ELSE IF ctx.testStage = 2 THEN
        [context |-> [ctx EXCEPT !.testAnswers = Put(@, "track", trackOf(answer)),
                                 !.testStage = @ + 1],
         reply |-> question3, threw |-> FALSE]
    ELSE IF ctx.testStage = 3 THEN
        [context |-> [ctx EXCEPT
                        !.testAnswers = Put(@, "duration", durationOf(answer)),
                        !.testStage = @ + 1],
         reply |-> lastReply(Put(ctx.testAnswers, "duration", durationOf(answer))),
         threw |-> FALSE]
    ELSE [context |-> ctx, reply |-> undefinedText, threw |-> FALSE]

\* handleCourseTest(answer) on context ctx: the context it leaves, the value
\* it returns (undefinedText when it falls off its end) and whether it threw
handleCourseTest(ctx, answer) ==
    IF ctx.testStage = nullStage \/ ctx.testStage = 0 THEN
        [context |-> [ctx EXCEPT !.testStage = 1],
         reply |-> question1, threw |-> FALSE]
    ELSE IF ctx.testStage = 1 THEN
        [context |-> [ctx EXCEPT !.testAnswers = Put(@, "level", levelOf(answer)),
                                 !.testStage = 2],
         reply |-> question2, threw |-> FALSE]
    ELSE IF ctx.testStage = 2 THEN
        [context |-> [ctx EXCEPT !.testAnswers = Put(@, "track", trackOf(answer)),
                                 !.testStage = 3],
         reply |-> question3, threw |-> FALSE]
    ELSE IF ctx.testStage = 3 THEN
        [context |-> [ctx EXCEPT
                        !.testAnswers = Put(@, "duration", durationOf(answer)),
                        !.testStage = nullStage],
         reply |-> lastReply(Put(ctx.testAnswers, "duration", durationOf(answer))),
         threw |-> lastReply(Put(ctx.testAnswers, "duration", durationOf(answer)))
                        = undefinedText]
    ELSE [context |-> ctx, reply |-> undefinedText, threw |-> FALSE]

----------------------------------------------------------------------------
(* ai-widget.js: the intents. *)

\* A pattern whose alternatives are literals, possibly joined by .*
Alts(alts) == [alts |-> alts, spaced |-> <<>>]

\* const intents of analyzeIntent, in the order of Object.entries, the
\* entries of intents.specific in the place of "specific"
intents == <<
    [intent |-> "greeting",
     pattern |-> Alts(<< <<<<1087, 1088, 1080, 1074, 1077, 1090>> (* "привет" *)>>, <<<<1079, 1076, 1088, 1072, 1074, 1089, 1090, 1074>> (* "здравств" *)>>, <<<<1076, 1086, 1073, 1088>> (* "добр" *)>>, <<<<104, 101, 108, 108,
            111>> (* "hello" *)>>,
                        <<<<104, 105>> (* "hi" *)>> >>)],
    [intent |-> "farewell",
     pattern |-> Alts(<< <<<<1087, 1086, 1082, 1072>> (* "пока" *)>>, <<<<1076, 1086, 32, 1089, 1074, 1080, 1076, 1072, 1085>> (* "до свидан" *)>>, <<<<1091, 1074, 1080, 1076, 1080,
            1084, 1089, 1103>> (* "увидимся" *)>>,
                        <<<<98, 121, 101>> (* "bye" *)>> >>)],
    [intent |-> "thanks",
     pattern |-> Alts(<< <<<<1089, 1087, 1072, 1089, 1080, 1073>> (* "спасиб" *)>>, <<<<116, 104, 97, 110, 107>> (* "thank" *)>>, <<<<1084, 1077, 1088, 1089, 1080>> (* "мерси" *)>> >>)],
    [intent |-> "personal",
     pattern |-> Alts(<< <<<<1082, 1072, 1082>> (* "как" *), <<1076, 1077, 1083>> (* "дел" *)>>, <<<<1082, 1072, 1082>> (* "как" *), <<1090, 1099>> (* "ты" *)>> >>)],
    [intent |-> "smalltalk",
     pattern |-> Alts(<< <<<<1087, 1086, 1075, 1086, 1076, 1072>> (* "погода" *)>>, <<<<1076, 1077, 1085, 1100>> (* "день" *)>>, <<<<1095, 1072, 1089>> (* "час" *)>>, <<<<1096, 1091, 1090, 1082>> (* "шутк" *)>>,
                        <<<<1072, 1085, 1077, 1082, 1076, 1086, 1090>> (* "анекдот" *)>>, <<<<1084, 1086, 1090, 1080, 1074, 1080, 1088, 1091,
            1081>> (* "мотивируй" *)>> >>)],
    [intent |-> "name",
     pattern |-> [alts |-> << <<<<1084, 1077, 1085, 1103, 32, 1079, 1086, 1074, 1091, 1090>> (* "меня зовут" *)>> >>, spaced |-> << <<1103>> (* "я" *) >>]],
    [intent |-> "goal",
     pattern |-> Alts(<< <<<<1082, 1072, 1088, 1100, 1077, 1088>> (* "карьер" *)>>, <<<<1088, 1072, 1073, 1086, 1090>> (* "работ" *)>>, <<<<1073, 1080, 1079, 1085, 1077, 1089>> (* "бизнес" *)>>, <<<<1092, 1080, 1085,
            1072, 1085, 1089>> (* "финанс" *)>>,
                        <<<<1088, 1086, 1089, 1090>> (* "рост" *)>>, <<<<1087, 1086, 1074, 1099, 1096, 1077, 1085>> (* "повышен" *)>> >>)],
    [intent |-> "test",
     pattern |-> Alts(<< <<<<1090, 1077, 1089, 1090>> (* "тест" *)>>, <<<<1087, 1086, 1076, 1073, 1086, 1088>> (* "подбор" *)>>, <<<<113, 117, 105, 122>> (* "quiz" *)>>, <<<<1086, 1087, 1088, 1086,
            1089>> (* "опрос" *)>> >>)],
    [intent |-> "courses",
     pattern |-> Alts(<< <<<<1082, 1091, 1088, 1089>> (* "курс" *)>>, <<<<1086, 1073, 1091, 1095, 1077, 1085>> (* "обучен" *)>>, <<<<1091, 1088, 1086, 1082>> (* "урок" *)>> >>)],
    [intent |-> "pricing",
     pattern |-> Alts(<< <<<<1094, 1077, 1085, 1072>> (* "цена" *)>>, <<<<1089, 1090, 1086, 1080, 1084>> (* "стоим" *)>>, <<<<1086, 1087, 1083, 1072, 1090>> (* "оплат" *)>>, <<<<1089, 1082, 1086, 1083,
            1100, 1082, 1086>> (* "сколько" *)>> >>)],
    [intent |-> "contacts",
     pattern |-> Alts(<< <<<<1082, 1086, 1085, 1090, 1072, 1082, 1090>> (* "контакт" *)>>, <<<<1087, 1086, 1076, 1076, 1077, 1088, 1078>> (* "поддерж" *)>>, <<<<1090, 1077, 1083, 1077, 1092,
            1086, 1085>> (* "телефон" *)>>, <<<<1087, 1086, 1095,
            1090>> (* "почт" *)>>,
                        <<<<101, 109, 97, 105, 108>> (* "email" *)>> >>)],
    [intent |-> "about",
     pattern |-> Alts(<< <<<<1086>> (* "о" *), <<1082, 1086, 1084, 1087, 1072, 1085>> (* "компан" *)>>, <<<<115, 107, 105, 108, 108, 115, 115, 112,
            105, 114, 101>> (* "skillsspire" *)>>, <<<<1084, 1080, 1089, 1089,
            1080>> (* "мисси" *)>>,
                        <<<<1082, 1090, 1086>> (* "кто" *), <<1074, 1099>> (* "вы" *)>> >>)],
    [intent |-> "recommend",
     pattern |-> Alts(<< <<<<1089, 1086, 1074, 1077, 1090>> (* "совет" *)>>, <<<<1088, 1077, 1082, 1086, 1084, 1077, 1085, 1076>> (* "рекоменд" *)>>, <<<<1095, 1090, 1086, 32, 1074, 1099,
            1073, 1088, 1072, 1090, 1100>> (* "что выбрать" *)>> >>)],
    [intent |-> "business_analytics",
     pattern |-> Alts(<< <<<<1073, 1080, 1079, 1085, 1077, 1089>> (* "бизнес" *), <<1072, 1085, 1072, 1083, 1080, 1079>> (* "анализ" *)>>, <<<<1072, 1085, 1072, 1083, 1080, 1090,
            1080, 1082>> (* "аналитик" *)>> >>)],
    [intent |-> "strategy",
     pattern |-> Alts(<< <<<<1089, 1090, 1088, 1072, 1090, 1077, 1075, 1080>> (* "стратеги" *)>>, <<<<1084, 1077, 1085, 1077, 1076, 1078, 1084,
            1077, 1085, 1090>> (* "менеджмент" *)>>, <<<<115, 119, 111, 116>> (* "swot" *)>>,
                        <<<<107, 112, 105>> (* "kpi" *)>> >>)],
    [intent |-> "finance",
     pattern |-> Alts(<< <<<<1092, 1080, 1085, 1072, 1085, 1089>> (* "финанс" *)>>, <<<<1086, 1090, 1095, 1077, 1090, 1085, 1086, 1089,
            1090>> (* "отчетност" *)>>, <<<<1073, 1091, 1093, 1075, 1072,
            1083, 1090, 1077, 1088>> (* "бухгалтер" *)>> >>)],
    [intent |-> "certificate",
     pattern |-> Alts(<< <<<<1089, 1077, 1088, 1090, 1080, 1092, 1080, 1082, 1072>> (* "сертифика" *)>>, <<<<1076, 1080, 1087, 1083, 1086, 1084>> (* "диплом" *)>> >>)],
    [intent |-> "teacher",
     pattern |-> Alts(<< <<<<1087, 1088, 1077, 1087, 1086, 1076>> (* "препод" *)>>, <<<<1083, 1077, 1082, 1090, 1086, 1088>> (* "лектор" *)>>, <<<<1082, 1090, 1086, 32, 1074, 1077,
            1076, 1077, 1090>> (* "кто ведет" *)>> >>)],
    [intent |-> "career",
     pattern |-> Alts(<< <<<<1082, 1072, 1088, 1100, 1077, 1088>> (* "карьер" *)>>, <<<<1088, 1072, 1073, 1086, 1090, 1072>> (* "работа" *)>>, <<<<1087, 1086, 1074, 1099, 1096,
            1077, 1085>> (* "повышен" *)>> >>)] >>

\* The entries of table whose pattern matches s, in the order of the table
RECURSIVE detect(_, _)
detect(table, s) ==
    IF Len(table) = 0 THEN <<>>
    ELSE (IF test(table[1].pattern, s) THEN <<table[1].intent>> ELSE <<>>)
            \o detect(Tail(table), s)

\* analyzeIntent with the sentinel for fewer than two intents
analyzeIntentMoreThanOne(message) ==
    LET detectedIntents == detect(intents, toLowerCase(message))
    IN  IF Len(detectedIntents) > 1 THEN detectedIntents ELSE <<"general">>

analyzeIntent(message) ==
    LET detectedIntents == detect(intents, toLowerCase(message))
    IN  IF Len(detectedIntents) > 0 THEN detectedIntents ELSE <<"general">>

\* analyzeIntent on the texts the model sends, computed once
analyzedTexts == [t \in Texts |-> analyzeIntent(t)]

analyzed(message) ==
    IF message \in Texts THEN analyzedTexts[message] ELSE analyzeIntent(message)

\* Array.prototype.includes on a list of tags
listIncludes(list, tag) == \E i \in 1..Len(list) : list[i] = tag

----------------------------------------------------------------------------
(* ai-widget.js: the replies. *)

greetingReply == <<55357, 56395, 32, 1055, 1088, 1080, 1074, 1077, 1090, 33, 32, 1063,
            1077, 1084, 32, 1084, 1086, 1075, 1091, 32, 1087, 1086, 1084, 1086,
            1095, 1100, 32, 8212, 32, 1087, 1086, 1076, 1073, 1086, 1088, 32,
            1082, 1091, 1088, 1089, 1072, 44, 32, 1094, 1077, 1085, 1099, 32,
            1080, 1083, 1080, 32, 1090, 1077, 1089, 1090, 63>> (* "👋 Привет! Чем могу помочь — подбор курса, цены или тест?" *)

farewellReply == <<1044, 1086, 32, 1074, 1089, 1090, 1088, 1077, 1095, 1080, 33, 32, 55357,
            56960, 32, 1059, 1089, 1087, 1077, 1093, 1086, 1074, 32, 1074, 32,
            1086, 1073, 1091, 1095, 1077, 1085, 1080, 1080, 33>> (* "До встречи! 🚀 Успехов в обучении!" *)

thanksReply == <<1042, 1089, 1077, 1075, 1076, 1072, 32, 1088, 1072, 1076, 32, 1087, 1086,
            1084, 1086, 1095, 1100, 32, 55357, 56908>> (* "Всегда рад помочь 🙌" *)

personalReply == <<1059, 32, 1084, 1077, 1085, 1103, 32, 1074, 1089, 1105, 32, 1086, 1090,
            1083, 1080, 1095, 1085, 1086, 33, 32, 1040, 32, 1091, 32, 1074,
            1072, 1089, 32, 1082, 1072, 1082, 32, 1076, 1077, 1083, 1072, 63>> (* "У меня всё отлично! А у вас как дела?" *)

smalltalkReply == <<1057, 1077, 1075, 1086, 1076, 1085, 1103, 32, 1086, 1090, 1083, 1080,
            1095, 1085, 1099, 1081, 32, 1076, 1077, 1085, 1100, 44, 32, 1095,
            1090, 1086, 1073, 1099, 32, 1091, 1095, 1080, 1090, 1100, 1089,
            1103, 32, 55356, 57235, 55357, 56960>> (* "Сегодня отличный день, чтобы учиться 🎓🚀" *)

teacherReply == <<55357, 56424, 8205, 55356, 57323, 32, 1055, 1088, 1077, 1087, 1086, 1076,
            1072, 1074, 1072, 1090, 1077, 1083, 1080, 32, 8212, 32, 1087, 1088,
            1072, 1082, 1090, 1080, 1082, 1080, 32, 1080, 32, 80, 104, 68, 32,
            1080, 1079, 32, 1090, 1086, 1087, 45, 1091, 1085, 1080, 1074, 1077,
            1088, 1089, 1080, 1090, 1077, 1090, 1086, 1074, 46>> (* "👨‍🏫 Преподаватели — практики и PhD из топ-университетов." *)

careerReply == <<55357, 56960, 32, 1053, 1072, 1096, 1080, 32, 1074, 1099, 1087, 1091,
            1089, 1082, 1085, 1080, 1082, 1080, 32, 1087, 1086, 1083, 1091,
            1095, 1072, 1102, 1090, 32, 1087, 1086, 1074, 1099, 1096, 1077,
            1085, 1080, 1077, 32, 1080, 32, 1085, 1086, 1074, 1099, 1077, 32,
            1082, 1072, 1088, 1100, 1077, 1088, 1085, 1099, 1077, 32, 1074,
            1086, 1079, 1084, 1086, 1078, 1085, 1086, 1089, 1090, 1080, 46>> (* "🚀 Наши выпускники получают повышение и новые карьерные возможности." *)

fallbackReply == <<1053, 1077, 32, 1089, 1086, 1074, 1089, 1077, 1084, 32, 1087, 1086,
            1085, 1103, 1083, 32, 55358, 56596, 32, 1061, 1086, 1090, 1080,
            1090, 1077, 32, 1087, 1088, 1086, 1081, 1090, 1080, 32, 1090, 1077,
            1089, 1090, 32, 1080, 1083, 1080, 32, 1087, 1086, 1082, 1072, 1079,
            1072, 1090, 1100, 32, 1089, 1087, 1080, 1089, 1086, 1082, 32, 1082,
            1091, 1088, 1089, 1086, 1074, 63>> (* "Не совсем понял 🤔 Хотите пройти тест или показать список курсов?" *)

nameReply(userName) == <<1054, 1095, 1077, 1085, 1100, 32, 1087, 1088, 1080, 1103, 1090,
            1085, 1086, 44, 32>> (* "Очень приятно, " *) \o userName \o <<33, 32, 55357, 56908>> (* "! 🙌" *)

coursesReply ==
    join([i \in 1..Len(knowledgeBase) |-> formatCourse(knowledgeBase[i])], <<10, 10>> (* "\n\n" *))

pricingReply ==
    join([i \in 1..Len(knowledgeBase) |->
            <<8226, 32>> (* "• " *) \o knowledgeBase[i].title \o <<58, 32>> (* ": " *) \o knowledgeBase[i].price], <<10>> (* "\n" *))

contactsReply == <<69, 109, 97, 105, 108, 58, 32>> (* "Email: " *) \o companyInfo.email \o <<10, 1058, 1077, 1083, 58, 32>> (* "\nТел: " *) \o companyInfo.phone

aboutReply == companyInfo.name \o <<58, 32>> (* ": " *) \o companyInfo.description

certificateReply ==
    <<55356, 57235, 32, 1057, 1077, 1088, 1090, 1080, 1092, 1080, 1082, 1072, 1090, 32,
      1074, 1099, 1076, 1072, 1077, 1090, 1089, 1103, 32, 1087, 1086, 1089, 1083,
      1077, 32, 1086, 1082, 1086, 1085, 1095, 1072, 1085, 1080, 1103, 32, 1082, 1091,
      1088, 1089, 1072, 32, 40>> (* "🎓 Сертификат выдается после окончания курса (" *) \o companyInfo.certificates \o <<41>> (* ")" *)

\* The goal branch: the course by the keyword of the message
goalReply(lowerMessage) ==
    IF includes(lowerMessage, <<1092, 1080, 1085, 1072, 1085, 1089>> (* "финанс" *)) THEN formatCourse(Course(2))
    ELSE IF includes(lowerMessage, <<1082, 1072, 1088, 1100, 1077, 1088>> (* "карьер" *)) THEN formatCourse(Course(1))
    ELSE formatCourse(Course(0))

\* match[1].charAt(0).toUpperCase() + match[1].slice(1)
capitalize(word) == <<Upper(word[1])>> \o Tail(word)

\* The ladder of generateAIResponse below the name branch
respond(ctx, found, lowerMessage) ==
    LET says(text) == [context |-> ctx, reply |-> text, threw |-> FALSE]
    IN  IF listIncludes(found, "greeting") THEN says(greetingReply)
        ELSE IF listIncludes(found, "farewell") THEN says(farewellReply)
        ELSE IF listIncludes(found, "thanks") THEN says(thanksReply)
        ELSE IF listIncludes(found, "personal") THEN says(personalReply)
        ELSE IF listIncludes(found, "smalltalk") THEN says(smalltalkReply)
        ELSE IF listIncludes(found, "test") THEN handleCourseTest(ctx, <<>>)
        ELSE IF listIncludes(found, "goal") THEN says(goalReply(lowerMessage))
        ELSE IF listIncludes(found, "courses") THEN says(coursesReply)
        ELSE IF listIncludes(found, "pricing") THEN says(pricingReply)
        ELSE IF listIncludes(found, "contacts") THEN says(contactsReply)
        ELSE IF listIncludes(found, "about") THEN says(aboutReply)
        ELSE IF listIncludes(found, "certificate") THEN says(certificateReply)
        ELSE IF listIncludes(found, "teacher") THEN says(teacherReply)
        ELSE IF listIncludes(found, "career") THEN says(careerReply)
        ELSE IF listIncludes(found, "business_analytics")
             THEN says(formatCourse(Course(0)))
        ELSE IF listIncludes(found, "strategy") THEN says(formatCourse(Course(1)))
        ELSE IF listIncludes(found, "finance") THEN says(formatCourse(Course(2)))
        ELSE says(fallbackReply)

\* The name branch: lowerMessage.match(/меня зовут\s+([а-яa-z]+)/i)
nameOf(found, lowerMessage) ==
    IF listIncludes(found, "name") THEN matchSpacedWord(<<1084, 1077, 1085, 1103, 32, 1079,
            1086, 1074, 1091, 1090>> (* "меня зовут" *), lowerMessage)
    ELSE nullText

\* freeForm with the last intent found as the topic
freeFormLastFound(ctx, userMessage) ==
    LET found == analyzed(userMessage)
        lowerMessage == toLowerCase(userMessage)
        topic == [ctx EXCEPT !.lastTopic = found[Len(found)]]
        match == nameOf(found, lowerMessage)
    IN  [intents |-> found] @@
        (IF match # nullText THEN
            [context |-> [topic EXCEPT !.userName = capitalize(match)],
             reply |-> nameReply(capitalize(match)), threw |-> FALSE]
         ELSE respond(topic, found, lowerMessage))

\* generateAIResponse below its first line: the intents, the topic, the name
\* and the ladder
freeForm(ctx, userMessage) ==
    LET found == analyzed(userMessage)
        lowerMessage == toLowerCase(userMessage)
        topic == [ctx EXCEPT !.lastTopic = found[1]]
        match == nameOf(found, lowerMessage)
    IN  [intents |-> found] @@
        (IF match # nullText THEN
            [context |-> [topic EXCEPT !.userName = capitalize(match)],
             reply |-> nameReply(capitalize(match)), threw |-> FALSE]
         ELSE respond(topic, found, lowerMessage))

\* generateAIResponse without its first line
generateAIResponseUnguarded(ctx, userMessage) == freeForm(ctx, userMessage)

\* generateAIResponse answering by turns with the fallback text, the turn
\* being counted over the AIAssistant objects of the realm
generateAIResponseCounted(ctx, userMessage) ==
    LET r == IF ctx.testStage # nullStage /\ ctx.testStage # 0
             THEN [intents |-> <<>>] @@ handleCourseTest(ctx, userMessage)
             ELSE freeForm(ctx, userMessage)
    IN  IF sessions.count % 2 = 0 THEN r
        ELSE [intents |-> r.intents, context |-> r.context,
              reply |-> fallbackReply, threw |-> r.threw]

\* generateAIResponse(userMessage) on context ctx: the context it leaves, the
\* value it returns, the list analyzeIntent returned (<<>> if it was not
\* called) and whether it threw
generateAIResponse(ctx, userMessage) ==
    IF ctx.testStage # nullStage /\ ctx.testStage # 0 THEN
        [intents |-> <<>>] @@ handleCourseTest(ctx, userMessage)
    ELSE freeForm(ctx, userMessage)

----------------------------------------------------------------------------
(* part_002, second class: the questionnaire of this.testSystem. *)

questions == <<
    [question |-> <<55356, 57263, 32, 1042, 1072, 1096, 32, 1090, 1077, 1082, 1091, 1097,
            1080, 1081, 32, 1091, 1088, 1086, 1074, 1077, 1085, 1100, 32, 1079,
            1085, 1072, 1085, 1080, 1081, 63>> (* "🎯 Ваш текущий уровень знаний?" *),
     options |-> << <<1053, 1072, 1095, 1080, 1085, 1072, 1102, 1097, 1080, 1081, 32, 40,
            1090, 1086, 1083, 1100, 1082, 1086, 32, 1086, 1089, 1085, 1086,
            1074, 1099, 41>> (* "Начинающий (только основы)" *), <<1057, 1088, 1077, 1076, 1085, 1080,
            1081, 32, 40, 1077, 1089, 1090, 1100, 32, 1086, 1087, 1099, 1090, 41>> (* "Средний (есть опыт)" *),
                    <<1054, 1087, 1099, 1090, 1085, 1099, 1081, 32, 40, 1075, 1083, 1091,
            1073, 1086, 1082, 1080, 1077, 32, 1079, 1085, 1072, 1085, 1080,
            1103, 41>> (* "Опытный (глубокие знания)" *) >>,
     key |-> "level"],
    [question |-> <<55357, 56508, 32, 1063, 1090, 1086, 32, 1074, 1072, 1089, 32, 1080,
            1085, 1090, 1077, 1088, 1077, 1089, 1091, 1077, 1090, 32, 1073,
            1086, 1083, 1100, 1096, 1077, 63>> (* "💼 Что вас интересует больше?" *),
     options |-> << <<1059, 1087, 1088, 1072, 1074, 1083, 1077, 1085, 1080, 1077, 32, 1083,
            1102, 1076, 1100, 1084, 1080, 32, 1080, 32, 1089, 1090, 1088, 1072,
            1090, 1077, 1075, 1080, 1103>> (* "Управление людьми и стратегия" *), <<1040, 1085, 1072, 1083, 1080, 1079,
            32, 1076, 1072, 1085, 1085, 1099, 1093, 32, 1080, 32, 1092, 1080,
            1085, 1072, 1085, 1089, 1099>> (* "Анализ данных и финансы" *),
                    <<1041, 1080, 1079, 1085, 1077, 1089, 45, 1087, 1083, 1072, 1085, 1080,
            1088, 1086, 1074, 1072, 1085, 1080, 1077, 32, 1080, 32, 1088, 1072,
            1079, 1074, 1080, 1090, 1080, 1077>> (* "Бизнес-планирование и развитие" *) >>,
     key |-> "interest"],
    [question |-> <<9201, 65039, 32, 1057, 1082, 1086, 1083, 1100, 1082, 1086, 32, 1074,
            1088, 1077, 1084, 1077, 1085, 1080, 32, 1075, 1086, 1090, 1086,
            1074, 1099, 32, 1091, 1076, 1077, 1083, 1103, 1090, 1100, 32, 1086,
            1073, 1091, 1095, 1077, 1085, 1080, 1102, 63>> (* "⏱️ Сколько времени готовы уделять обучению?" *),
     options |-> << <<52, 32, 1085, 1077, 1076, 1077, 1083, 1080, 32, 40, 1080, 1085, 1090,
            1077, 1085, 1089, 1080, 1074, 41>> (* "4 недели (интенсив)" *), <<54, 32, 1085, 1077, 1076, 1077, 1083, 1100,
            32, 40, 1089, 1090, 1072, 1085, 1076, 1072, 1088, 1090, 41>> (* "6 недель (стандарт)" *),
                    <<56, 32, 1085, 1077, 1076, 1077, 1083, 1100, 32, 40, 1082, 1086, 1084,
            1092, 1086, 1088, 1090, 1085, 1099, 1081, 32, 1090, 1077, 1084,
            1087, 41>> (* "8 недель (комфортный темп)" *) >>,
     key |-> "duration"],
    [question |-> <<55357, 56960, 32, 1042, 1072, 1096, 1072, 32, 1086, 1089, 1085, 1086,
            1074, 1085, 1072, 1103, 32, 1094, 1077, 1083, 1100, 63>> (* "🚀 Ваша основная цель?" *),
     options |-> << <<1050, 1072, 1088, 1100, 1077, 1088, 1085, 1099, 1081, 32, 1088, 1086,
            1089, 1090>> (* "Карьерный рост" *), <<1056, 1072, 1079, 1074, 1080, 1090, 1080, 1077, 32,
            1073, 1080, 1079, 1085, 1077, 1089, 1072>> (* "Развитие бизнеса" *), <<1051, 1080, 1095, 1085, 1086,
            1077, 32, 1088, 1072, 1079, 1074, 1080, 1090, 1080, 1077>> (* "Личное развитие" *) >>,
     key |-> "goal"] >>

\* A non-negative number in a template literal
RECURSIVE numberText(_)
numberText(n) ==
    IF n < 10 THEN <<48 + n>> ELSE numberText(n \div 10) \o <<48 + (n % 10)>>

\* The lines "1. option\n" of the options from position i on
RECURSIVE optionLines(_, _)
optionLines(options, i) ==
    IF i > Len(options) THEN <<>>
    ELSE numberText(i) \o <<46, 32>> (* ". " *) \o options[i] \o <<10>> (* "\n" *) \o optionLines(options, i + 1)

\* The message showTestQuestion appends for question number q (from 0)
questionText(q) ==
    <<55357, 56541, 32, 1042, 1086, 1087, 1088, 1086, 1089, 32>> (* "📝 Вопрос " *) \o numberText(q + 1) \o <<47>> (* "/" *) \o numberText(Len(questions)) \o <<58, 10>> (* ":\n" *)
        \o questions[q + 1].question \o <<10, 10>> (* "\n\n" *) \o optionLines(questions[q + 1].options, 1)
        \o <<10, 1055, 1088, 1086, 1089, 1090, 1086, 32, 1085, 1072, 1087, 1080, 1096,
            1080, 1090, 1077, 32, 1085, 1086, 1084, 1077, 1088, 32, 1086, 1090,
            1074, 1077, 1090, 1072, 32, 40, 49, 44, 32, 50, 44, 32, 51, 41, 32,
            1080, 1083, 1080, 32, 1090, 1077, 1082, 1089, 1090>> (* "\nПросто напишите номер ответа (1, 2, 3) или текст" *)

clarification == <<55358, 56596, 32, 1055, 1086, 1078, 1072, 1083, 1091, 1081, 1089, 1090,
            1072, 44, 32, 1074, 1099, 1073, 1077, 1088, 1080, 1090, 1077, 32,
            1086, 1076, 1080, 1085, 32, 1080, 1079, 32, 1087, 1088, 1077, 1076,
            1083, 1086, 1078, 1077, 1085, 1085, 1099, 1093, 32, 1074, 1072,
            1088, 1080, 1072, 1085, 1090, 1086, 1074, 32, 40, 49, 44, 32, 50,
            32, 1080, 1083, 1080, 32, 51, 41>> (* "🤔 Пожалуйста, выберите один из предложенных вариантов (1, 2 или 3)" *)

\* answers.key?.includes(text)
answerIncludes(answers, key, text) == Has(answers, key) /\ includes(answers[key], text)

\* The course by the interest alone
recommendedCourseTSByInterest(answers) ==
    IF answerIncludes(answers, "interest", <<1059, 1087, 1088, 1072, 1074, 1083, 1077,
            1085, 1080, 1077, 32, 1083, 1102, 1076, 1100, 1084, 1080>> (* "Управление людьми" *)) THEN Course(1)
    ELSE IF answerIncludes(answers, "interest", <<1040, 1085, 1072, 1083, 1080, 1079, 32,
            1076, 1072, 1085, 1085, 1099, 1093>> (* "Анализ данных" *)) THEN Course(0)
    ELSE Course(2)

\* The course with no record of last resort
recommendedCourseTSNoDefault(answers) ==
    IF answerIncludes(answers, "duration", <<56, 32, 1085, 1077, 1076, 1077, 1083, 1100>> (* "8 недель" *)) THEN Course(1)
    ELSE IF answerIncludes(answers, "interest", <<1059, 1087, 1088, 1072, 1074, 1083, 1077,
            1085, 1080, 1077, 32, 1083, 1102, 1076, 1100, 1084, 1080>> (* "Управление людьми" *)) THEN Course(1)
    ELSE IF answerIncludes(answers, "interest", <<1040, 1085, 1072, 1083, 1080, 1079, 32,
            1076, 1072, 1085, 1085, 1099, 1093>> (* "Анализ данных" *)) THEN Course(0)
    ELSE IF answerIncludes(answers, "interest", <<1041, 1080, 1079, 1085, 1077, 1089, 45,
            1087, 1083, 1072, 1085, 1080, 1088, 1086, 1074, 1072, 1085, 1080,
            1077>> (* "Бизнес-планирование" *)) THEN Course(2)
    ELSE undefinedCourse

\* let recommendedCourse of generateRecommendation
recommendedCourseTS(answers) ==
    LET byInterest ==
            IF answerIncludes(answers, "interest", <<1059, 1087, 1088, 1072, 1074, 1083,
            1077, 1085, 1080, 1077, 32, 1083, 1102, 1076, 1100, 1084, 1080>> (* "Управление людьми" *)) THEN Course(1)
            ELSE IF answerIncludes(answers, "interest", <<1040, 1085, 1072, 1083, 1080,
            1079, 32, 1076, 1072, 1085, 1085, 1099, 1093>> (* "Анализ данных" *)) THEN Course(0)
            ELSE Course(2)
    IN  IF answerIncludes(answers, "duration", <<54, 32, 1085, 1077, 1076, 1077, 1083, 1100>> (* "6 недель" *))
              /\ byInterest.duration = <<54, 32, 1085, 1077, 1076, 1077, 1083, 1100>> (* "6 недель" *)
        THEN Course(0)
        ELSE IF answerIncludes(answers, "duration", <<56, 32, 1085, 1077, 1076, 1077, 1083,
            1100>> (* "8 недель" *)) THEN Course(1)
        ELSE byInterest

recommendationTextTS(course) ==
    <<9989, 32, 1054, 1090, 1083, 1080, 1095, 1085, 1086, 33, 32, 1055, 1086, 32, 1074,
      1072, 1096, 1080, 1084, 32, 1086, 1090, 1074, 1077, 1090, 1072, 1084, 32, 1080,
      1076, 1077, 1072, 1083, 1100, 1085, 1086, 32, 1087, 1086, 1076, 1093, 1086,
      1076, 1080, 1090, 58, 10, 10, 55356, 57263, 32>> (* "✅ Отлично! По вашим ответам идеально подходит:\n\n🎯 " *) \o course.title \o <<10, 10>> (* "\n\n" *)
        \o course.description \o <<10, 10, 11088, 32, 1056, 1077, 1081, 1090, 1080, 1085,
            1075, 58, 32>> (* "\n\n⭐ Рейтинг: " *) \o course.rating \o <<47, 53, 10, 55357,
            56496, 32, 1062, 1077, 1085, 1072, 58, 32>> (* "/5\n💰 Цена: " *)
        \o course.price \o <<32, 40, 1089, 1082, 1080, 1076, 1082, 1072, 33, 41, 10, 9201,
            65039, 32, 1044, 1083, 1080, 1090, 1077, 1083, 1100, 1085, 1086,
            1089, 1090, 1100, 58, 32>> (* " (скидка!)\n⏱️ Длительность: " *) \o course.duration
        \o <<10, 55356, 57235, 32, 1059, 1088, 1086, 1074, 1077, 1085, 1100, 58, 32>> (* "\n🎓 Уровень: " *) \o course.level
        \o <<10, 10, 1061, 1086, 1090, 1080, 1090, 1077, 32, 1091, 1079, 1085, 1072, 1090,
            1100, 32, 1073, 1086, 1083, 1100, 1096, 1077, 32, 1086, 1073, 32,
            1101, 1090, 1086, 1084, 32, 1082, 1091, 1088, 1089, 1077, 32, 1080,
            1083, 1080, 32, 1087, 1086, 1089, 1084, 1086, 1090, 1088, 1077,
            1090, 1100, 32, 1076, 1088, 1091, 1075, 1080, 1077, 32, 1074, 1072,
            1088, 1080, 1072, 1085, 1090, 1099, 63, 32, 55357, 56842>> (* "\n\nХотите узнать больше об этом курсе или посмотреть другие варианты? 😊" *)

\* generateRecommendation(): the text it returns, undefinedText if it throws
generateRecommendation(answers) ==
    IF recommendedCourseTS(answers) = undefinedCourse THEN undefinedText
    ELSE recommendationTextTS(recommendedCourseTS(answers))

\* option.split(' ')[0]
firstWord(s) ==
    LET spaces == {i \in 1..Len(s) : s[i] = 32}
    IN  IF spaces = {} THEN s ELSE SubSeq(s, 1, Min(spaces) - 1)

\* userAnswer.match(/[123]/): the position of the first 1, 2 or 3, 0 if none
numberMatch(userAnswer) ==
    LET hits == {i \in 1..Len(userAnswer) : userAnswer[i] \in 49..51}
    IN  IF hits = {} THEN 0 ELSE Min(hits)

\* options.findIndex(...) of processTestAnswer, from 0, -1 if no option fits
findIndex(options, userAnswer) ==
    LET fits == {i \in 1..Len(options) :
                    \/ includes(toLowerCase(options[i]), toLowerCase(userAnswer))
                    \/ includes(toLowerCase(userAnswer),
                                toLowerCase(firstWord(options[i])))}
    IN  IF fits = {} THEN 0 - 1 ELSE Min(fits) - 1

\* answerIndex with the digit as the index from 0
answerIndexFromZero(options, userAnswer) ==
    IF numberMatch(userAnswer) # 0
    THEN userAnswer[numberMatch(userAnswer)] - 48
    ELSE findIndex(options, userAnswer)

\* let answerIndex of processTestAnswer
answerIndex(options, userAnswer) ==
    IF numberMatch(userAnswer) # 0
    THEN (userAnswer[numberMatch(userAnswer)] - 48) - 1
    ELSE findIndex(options, userAnswer)

\* The result of a method of the testSystem class: the fields it leaves, the
\* messages it appended, the showQuickReplies timers it set, whether it threw
result(ts, ctx, emitted, quick, threw) ==
    [testSystem |-> ts, context |-> ctx, emitted |-> emitted, quick |-> quick,
     threw |-> threw]

\* finishTest leaving the questionnaire active
finishTestStaysActive(ts, ctx) ==
    result(ts, ctx, <<generateRecommendation(ts.userAnswers)>>, 1, FALSE)

\* finishTest()
finishTest(ts, ctx) ==
    IF generateRecommendation(ts.userAnswers) = undefinedText
    THEN result([ts EXCEPT !.isActive = FALSE], ctx, <<>>, 0, TRUE)
    ELSE result([ts EXCEPT !.isActive = FALSE], ctx,
                <<generateRecommendation(ts.userAnswers)>>, 1, FALSE)

\* showTestQuestion(): questions[currentQuestion] is undefined past the end
showTestQuestion(ts, ctx) ==
    IF ts.currentQuestion \in 0..(Len(questions) - 1)
    THEN result(ts, ctx, <<questionText(ts.currentQuestion)>>, 0, FALSE)
    ELSE result(ts, ctx, <<>>, 0, TRUE)

\* startTest()
startTest(ts, ctx) ==
    showTestQuestion([isActive |-> TRUE, currentQuestion |-> 0,
                      userAnswers |-> emptyObject], ctx)

\* processTestAnswer going on to the next question after an answer it could
\* not place
processTestAnswerSkips(ts, ctx, userAnswer) ==
    IF ts.currentQuestion \notin 0..(Len(questions) - 1)
    THEN result(ts, ctx, <<>>, 0, TRUE)
    ELSE
        LET currentQuestion == questions[ts.currentQuestion + 1]
            index == answerIndex(currentQuestion.options, userAnswer)
            next == [ts EXCEPT
                        !.userAnswers = Put(@, currentQuestion.key,
                                            currentQuestion.options[index + 1]),
                        !.currentQuestion = @ + 1]
        IN  IF index >= 0 /\ index < Len(currentQuestion.options) THEN
                IF next.currentQuestion < Len(questions)
                THEN showTestQuestion(next, ctx)
                ELSE finishTest(next, ctx)
            ELSE result([ts EXCEPT !.currentQuestion = (@ + 1) % Len(questions)],
                        ctx, <<clarification>>, 0, FALSE)

\* processTestAnswer(userAnswer)
processTestAnswer(ts, ctx, userAnswer) ==
    IF ts.currentQuestion \notin 0..(Len(questions) - 1)
    THEN result(ts, ctx, <<>>, 0, TRUE)
    ELSE
        LET currentQuestion == questions[ts.currentQuestion + 1]
            index == answerIndex(currentQuestion.options, userAnswer)
            next == [ts EXCEPT
                        !.userAnswers = Put(@, currentQuestion.key,
                                            currentQuestion.options[index + 1]),
                        !.currentQuestion = @ + 1]
        IN  IF index >= 0 /\ index < Len(currentQuestion.options) THEN
                IF next.currentQuestion < Len(questions)
                THEN showTestQuestion(next, ctx)
                ELSE finishTest(next, ctx)
            ELSE result(ts, ctx, <<clarification>>, 0, FALSE)

----------------------------------------------------------------------------
(* part_002, second class: the intents and the replies. *)

\* const intents of analyzeIntent
intentsTS == <<
    [intent |-> "test",
     pattern |-> Alts(<< <<<<1090, 1077, 1089, 1090>> (* "тест" *)>>, <<<<1087, 1086, 1076, 1086, 1073, 1088>> (* "подобр" *)>>, <<<<1088, 1077, 1082, 1086, 1084, 1077,
            1085, 1076>> (* "рекоменд" *)>>, <<<<1087, 1086, 1089,
            1086, 1074, 1077, 1090>> (* "посовет" *)>>,
                        <<<<1095, 1090, 1086>> (* "что" *), <<1074, 1099, 1073, 1088>> (* "выбр" *)>>, <<<<1082, 1072, 1082, 1086, 1081>> (* "какой" *), <<1082, 1091, 1088, 1089>> (* "курс" *)>> >>)],
    [intent |-> "greeting",
     pattern |-> Alts(<< <<<<1087, 1088, 1080, 1074, 1077, 1090>> (* "привет" *)>>, <<<<1079, 1076, 1088, 1072, 1074, 1089, 1090, 1074>> (* "здравств" *)>>, <<<<1076, 1086, 1073, 1088>> (* "добр" *)>>, <<<<1093, 1072, 1081>> (* "хай" *)>>,
                        <<<<104, 101, 108, 108, 111>> (* "hello" *)>>, <<<<104, 105>> (* "hi" *)>>, <<<<1089, 1072, 1083, 1072, 1084>> (* "салам" *)>> >>)],
    [intent |-> "courses",
     pattern |-> Alts(<< <<<<1082, 1091, 1088, 1089>> (* "курс" *)>>, <<<<1086, 1073, 1091, 1095, 1077, 1085>> (* "обучен" *)>>, <<<<1087, 1088, 1086, 1075, 1088, 1072,
            1084, 1084>> (* "программ" *)>> >>)],
    [intent |-> "pricing",
     pattern |-> Alts(<< <<<<1094, 1077, 1085, 1072>> (* "цена" *)>>, <<<<1089, 1090, 1086, 1080, 1084>> (* "стоим" *)>>, <<<<1086, 1087, 1083, 1072, 1090>> (* "оплат" *)>>, <<<<1076, 1077, 1085, 1100,
            1075>> (* "деньг" *)>>,
                        <<<<1089, 1082, 1086, 1083, 1100, 1082, 1086>> (* "сколько" *)>>, <<<<1089, 1090, 1086, 1080, 1090>> (* "стоит" *)>> >>)],
    [intent |-> "contacts",
     pattern |-> Alts(<< <<<<1082, 1086, 1085, 1090, 1072, 1082, 1090>> (* "контакт" *)>>, <<<<1087, 1086, 1076, 1076, 1077, 1088, 1078>> (* "поддерж" *)>>, <<<<1087, 1086, 1084, 1086, 1097>> (* "помощ" *)>>, <<<<1089, 1074, 1103,
            1079>> (* "связ" *)>>,
                        <<<<1090, 1077, 1083, 1077, 1092, 1086, 1085>> (* "телефон" *)>>, <<<<1087, 1086, 1095, 1090>> (* "почт" *)>>, <<<<101, 109, 97, 105, 108>> (* "email" *)>> >>)],
    [intent |-> "about",
     pattern |-> Alts(<< <<<<1086>> (* "о" *), <<1082, 1086, 1084, 1087, 1072, 1085>> (* "компан" *)>>, <<<<1086>> (* "о" *), <<1074, 1072, 1089>> (* "вас" *)>>, <<<<115, 107, 105, 108, 108,
            115, 115, 112, 105, 114, 101>> (* "skillsspire" *)>> >>)],
    [intent |-> "certificate",
     pattern |-> Alts(<< <<<<1089, 1077, 1088, 1090, 1080, 1092, 1080, 1082, 1072>> (* "сертифика" *)>>, <<<<1076, 1086, 1082, 1091, 1084, 1077, 1085, 1090>> (* "документ" *)>>, <<<<1076, 1080, 1087, 1083, 1086,
            1084>> (* "диплом" *)>> >>)],
    [intent |-> "instructor",
     pattern |-> Alts(<< <<<<1087, 1088, 1077, 1087, 1086, 1076, 1072, 1074>> (* "преподав" *)>>, <<<<1091, 1095, 1080, 1090, 1077, 1083, 1100>> (* "учитель" *)>>, <<<<1083, 1077, 1082, 1090, 1086,
            1088>> (* "лектор" *)>>,
                        <<<<1082, 1090, 1086>> (* "кто" *), <<1091, 1095, 1080, 1090>> (* "учит" *)>> >>)],
    [intent |-> "career",
     pattern |-> Alts(<< <<<<1082, 1072, 1088, 1100, 1077, 1088>> (* "карьер" *)>>, <<<<1088, 1072, 1073, 1086, 1090>> (* "работ" *)>>, <<<<1090, 1088, 1091, 1076, 1086, 1091,
            1089, 1090, 1088, 1086, 1081>> (* "трудоустрой" *)>> >>)],
    [intent |-> "yes",
     pattern |-> Alts(<< <<<<1076, 1072>> (* "да" *)>>, <<<<121, 101, 115>> (* "yes" *)>>, <<<<1082, 1086, 1085, 1077, 1095, 1085, 1086>> (* "конечно" *)>>, <<<<1093, 1086, 1095, 1091>> (* "хочу" *)>>,
                        <<<<1072, 1075, 1072>> (* "ага" *)>> >>)],
    [intent |-> "no",
     pattern |-> Alts(<< <<<<1085, 1077, 1090>> (* "нет" *)>>, <<<<110, 111>> (* "no" *)>>, <<<<1085, 1077, 32, 1093, 1086, 1095, 1091>> (* "не хочу" *)>>, <<<<1085, 1077, 32, 1085,
            1072, 1076, 1086>> (* "не надо" *)>> >>)] >>

\* analyzeIntent returning the last intent of the table that matches
analyzeIntentTSLast(message) ==
    LET found == detect(intentsTS, toLowerCase(message))
    IN  IF Len(found) > 0 THEN found[Len(found)] ELSE "general"

\* analyzeIntent(message): the first intent of the table that matches
analyzeIntentTS(message) ==
    LET found == detect(intentsTS, toLowerCase(message))
    IN  IF Len(found) > 0 THEN found[1] ELSE "general"

analyzedTextsTS == [t \in Texts |-> analyzeIntentTS(t)]

analyzedTS(message) ==
    IF message \in Texts THEN analyzedTextsTS[message] ELSE analyzeIntentTS(message)

coursesReplyTS == <<55357, 56538, 32, 1053, 1072, 1096, 1080, 32, 1082, 1091, 1088, 1089,
            1099, 58, 10, 10, 8226, 32, 1041, 1080, 1079, 1085, 1077, 1089, 45,
            1072, 1085, 1072, 1083, 1080, 1079, 32, 1080, 32, 1087, 1088, 1080,
            1085, 1103, 1090, 1080, 1077, 32, 1088, 1077, 1096, 1077, 1085,
            1080, 1081, 32, 45, 32, 49, 53, 32, 48, 48, 48, 32, 8376, 10, 8226,
            32, 1057, 1090, 1088, 1072, 1090, 1077, 1075, 1080, 1095, 1077,
            1089, 1082, 1080, 1081, 32, 1084, 1077, 1085, 1077, 1076, 1078,
            1084, 1077, 1085, 1090, 32, 45, 32, 49, 55, 32, 48, 48, 48, 32,
            8376, 10, 8226, 32, 1060, 1080, 1085, 1072, 1085, 1089, 1086, 1074,
            1072, 1103, 32, 1075, 1088, 1072, 1084, 1086, 1090, 1085, 1086,
            1089, 1090, 1100, 32, 45, 32, 49, 50, 32, 48, 48, 48, 32, 8376, 10,
            10, 1061, 1086, 1090, 1080, 1090, 1077, 32, 1087, 1088, 1086, 1081,
            1090, 1080, 32, 1090, 1077, 1089, 1090, 32, 1076, 1083, 1103, 32,
            1087, 1086, 1076, 1073, 1086, 1088, 1072, 63>> (* "📚 Наши курсы:\n\n• Бизнес-анализ и принятие решений - 15 000 ₸\n• Стратегический менеджмент - 17 000 ₸\n• Финансовая грамотность - 12 000 ₸\n\nХотите пройти тест для подбора?" *)

pricingReplyTS == <<55357, 56496, 32, 1057, 1090, 1086, 1080, 1084, 1086, 1089, 1090, 1100,
            32, 1082, 1091, 1088, 1089, 1086, 1074, 58, 10, 10, 8226, 32, 1041,
            1080, 1079, 1085, 1077, 1089, 45, 1072, 1085, 1072, 1083, 1080,
            1079, 32, 1080, 32, 1087, 1088, 1080, 1085, 1103, 1090, 1080, 1077,
            32, 1088, 1077, 1096, 1077, 1085, 1080, 1081, 58, 32, 49, 53, 32,
            48, 48, 48, 32, 8376, 10, 8226, 32, 1057, 1090, 1088, 1072, 1090,
            1077, 1075, 1080, 1095, 1077, 1089, 1082, 1080, 1081, 32, 1084,
            1077, 1085, 1077, 1076, 1078, 1084, 1077, 1085, 1090, 32, 1080, 32,
            1073, 1080, 1079, 1085, 1077, 1089, 45, 1087, 1083, 1072, 1085,
            1080, 1088, 1086, 1074, 1072, 1085, 1080, 1077, 58, 32, 49, 55, 32,
            48, 48, 48, 32, 8376, 10, 8226, 32, 1060, 1080, 1085, 1072, 1085,
            1089, 1086, 1074, 1072, 1103, 32, 1075, 1088, 1072, 1084, 1086,
            1090, 1085, 1086, 1089, 1090, 1100, 32, 1076, 1083, 1103, 32, 1088,
            1091, 1082, 1086, 1074, 1086, 1076, 1080, 1090, 1077, 1083, 1077,
            1081, 58, 32, 49, 50, 32, 48, 48, 48, 32, 8376, 10, 10, 55357,
            56462, 32, 1042, 1089, 1077, 32, 1082, 1091, 1088, 1089, 1099, 32,
            1089, 1086, 32, 1089, 1082, 1080, 1076, 1082, 1072, 1084, 1080, 33>> (* "💰 Стоимость курсов:\n\n• Бизнес-анализ и принятие решений: 15 000 ₸\n• Стратегический менеджмент и бизнес-планирование: 17 000 ₸\n• Финансовая грамотность для руководителей: 12 000 ₸\n\n💎 Все курсы со скидками!" *)

contactsReplyTS == <<55357, 56542, 32, 1050, 1086, 1085, 1090, 1072, 1082, 1090, 1099, 32,
            1087, 1086, 1076, 1076, 1077, 1088, 1078, 1082, 1080, 58, 10, 10,
            55357, 56551, 32, 69, 109, 97, 105, 108, 58, 32, 115, 107, 105,
            108, 108, 115, 115, 112, 105, 114, 101, 64, 103, 109, 97, 105, 108,
            46, 99, 111, 109, 10, 55357, 56561, 32, 1058, 1077, 1083, 1077,
            1092, 1086, 1085, 58, 32, 43, 55, 32, 40, 55, 48, 49, 41, 32, 50,
            57, 50, 45, 53, 53, 45, 54, 56, 10, 55357, 56568, 32, 73, 110, 115,
            116, 97, 103, 114, 97, 109, 58, 32, 64, 115, 107, 105, 108, 108,
            115, 115, 112, 105, 114, 101, 10, 9992, 65039, 32, 84, 101, 108,
            101, 103, 114, 97, 109, 58, 32, 64, 83, 107, 105, 108, 108, 115,
            83, 112, 105, 114, 101>> (* "📞 Контакты поддержки:\n\n📧 Email: skillsspire@gmail.com\n📱 Телефон: +7 (701) 292-55-68\n📸 Instagram: @skillsspire\n✈️ Telegram: @SkillsSpire" *)

aboutReplyTS == <<55356, 57323, 32, 1054, 32, 1082, 1086, 1084, 1087, 1072, 1085, 1080,
            1080, 32, 83, 107, 105, 108, 108, 115, 83, 112, 105, 114, 101, 58,
            10, 10, 83, 107, 105, 108, 108, 115, 83, 112, 105, 114, 101, 58,
            32, 1040, 1082, 1072, 1076, 1077, 1084, 1080, 1095, 1077, 1089,
            1082, 1086, 1077, 32, 1082, 1072, 1095, 1077, 1089, 1090, 1074,
            1086, 32, 1074, 32, 1089, 1086, 1074, 1088, 1077, 1084, 1077, 1085,
            1085, 1086, 1084, 32, 1092, 1086, 1088, 1084, 1072, 1090, 1077, 46,
            32, 1050, 1083, 1072, 1089, 1089, 1080, 1082, 1072, 44, 32, 1087,
            1077, 1088, 1077, 1086, 1089, 1084, 1099, 1089, 1083, 1077, 1085,
            1085, 1072, 1103, 32, 1076, 1083, 1103, 32, 1073, 1091, 1076, 1091,
            1097, 1077, 1075, 1086, 46>> (* "🏫 О компании SkillsSpire:\n\nSkillsSpire: Академическое качество в современном формате. Классика, переосмысленная для будущего." *)

certificateReplyTS == <<55357, 56540, 32, 1057, 1077, 1088, 1090, 1080, 1092, 1080, 1082,
            1072, 1090, 1099, 32, 1080, 32, 1076, 1080, 1087, 1083, 1086, 1084,
            1099, 58, 10, 10, 8226, 32, 1054, 1092, 1080, 1094, 1080, 1072,
            1083, 1100, 1085, 1099, 1081, 32, 1076, 1086, 1082, 1091, 1084,
            1077, 1085, 1090, 32, 1086, 32, 1087, 1088, 1086, 1093, 1086, 1078,
            1076, 1077, 1085, 1080, 1080, 10, 8226, 32, 1055, 1086, 1076, 1090,
            1074, 1077, 1088, 1078, 1076, 1072, 1077, 1090, 32, 1082, 1086,
            1084, 1087, 1077, 1090, 1077, 1085, 1094, 1080, 1080, 10, 8226, 32,
            1055, 1088, 1080, 1079, 1085, 1072, 1077, 1090, 1089, 1103, 32,
            1088, 1072, 1073, 1086, 1090, 1086, 1076, 1072, 1090, 1077, 1083,
            1103, 1084, 1080, 10, 8226, 32, 1041, 1086, 1083, 1077, 1077, 32,
            49, 48, 48, 32, 1074, 1099, 1087, 1091, 1089, 1082, 1085, 1080,
            1082, 1086, 1074>> (* "📜 Сертификаты и дипломы:\n\n• Официальный документ о прохождении\n• Подтверждает компетенции\n• Признается работодателями\n• Более 100 выпускников" *)

instructorReplyTS == <<55357, 56424, 8205, 55356, 57235, 32, 1050, 1090, 1086, 32, 1087,
            1088, 1077, 1087, 1086, 1076, 1072, 1105, 1090, 58, 10, 10, 55357,
            56424, 8205, 55356, 57323, 32, 1055, 1088, 1077, 1087, 1086, 1076,
            1072, 1074, 1072, 1090, 1077, 1083, 1080, 32, 8212, 32, 1087, 1088,
            1072, 1082, 1090, 1080, 1082, 1080, 32, 1080, 32, 80, 104, 68, 32,
            1080, 1079, 32, 1090, 1086, 1087, 45, 1091, 1085, 1080, 1074, 1077,
            1088, 1089, 1080, 1090, 1077, 1090, 1086, 1074, 46>> (* "👨‍🎓 Кто преподаёт:\n\n👨‍🏫 Преподаватели — практики и PhD из топ-университетов." *)

careerReplyTS == <<55357, 56960, 32, 1050, 1072, 1082, 32, 1087, 1086, 1084, 1086, 1075,
            1072, 1077, 1090, 32, 1074, 32, 1082, 1072, 1088, 1100, 1077, 1088,
            1077, 58, 10, 10, 8226, 32, 56, 53, 37, 32, 1074, 1099, 1087, 1091,
            1089, 1082, 1085, 1080, 1082, 1086, 1074, 32, 1085, 1072, 1093,
            1086, 1076, 1103, 1090, 32, 1088, 1072, 1073, 1086, 1090, 1091, 32,
            1079, 1072, 32, 51, 32, 1084, 1077, 1089, 1103, 1094, 1072, 10,
            8226, 32, 1055, 1086, 1084, 1086, 1097, 1100, 32, 1089, 32, 1088,
            1077, 1079, 1102, 1084, 1077, 32, 1080, 32, 1089, 1086, 1073, 1077,
            1089, 1077, 1076, 1086, 1074, 1072, 1085, 1080, 1103, 1084, 1080,
            10, 8226, 32, 1057, 1090, 1072, 1078, 1080, 1088, 1086, 1074, 1082,
            1080, 32, 1074, 32, 1082, 1086, 1084, 1087, 1072, 1085, 1080, 1103,
            1093, 45, 1087, 1072, 1088, 1090, 1085, 1077, 1088, 1072, 1093, 10,
            8226, 32, 1050, 1072, 1088, 1100, 1077, 1088, 1085, 1099, 1077, 32,
            1082, 1086, 1085, 1089, 1091, 1083, 1100, 1090, 1072, 1094, 1080,
            1080>> (* "🚀 Как помогает в карьере:\n\n• 85% выпускников находят работу за 3 месяца\n• Помощь с резюме и собеседованиями\n• Стажировки в компаниях-партнерах\n• Карьерные консультации" *)

yesReplyTS == <<1054, 1090, 1083, 1080, 1095, 1085, 1086, 33, 32, 1061, 1086, 1090, 1080,
            1090, 1077, 32, 1087, 1088, 1086, 1081, 1090, 1080, 32, 1090, 1077,
            1089, 1090, 32, 1076, 1083, 1103, 32, 1087, 1086, 1076, 1073, 1086,
            1088, 1072, 32, 1082, 1091, 1088, 1089, 1072, 32, 1080, 1083, 1080,
            32, 1087, 1086, 1082, 1072, 1079, 1072, 1090, 1100, 32, 1074, 1089,
            1077, 32, 1074, 1072, 1088, 1080, 1072, 1085, 1090, 1099, 63>> (* "Отлично! Хотите пройти тест для подбора курса или показать все варианты?" *)

noReplyTS == <<1055, 1086, 1085, 1103, 1083, 33, 32, 1052, 1086, 1078, 1077, 1090, 32,
            1073, 1099, 1090, 1100, 44, 32, 1074, 1072, 1089, 32, 1080, 1085,
            1090, 1077, 1088, 1077, 1089, 1091, 1077, 1090, 32, 1095, 1090,
            1086, 45, 1090, 1086, 32, 1076, 1088, 1091, 1075, 1086, 1077, 63,
            32, 1057, 1087, 1088, 1086, 1089, 1080, 1090, 1077, 32, 1086, 32,
            1082, 1091, 1088, 1089, 1072, 1093, 44, 32, 1094, 1077, 1085, 1072,
            1093, 32, 1080, 1083, 1080, 32, 1087, 1086, 1076, 1076, 1077, 1088,
            1078, 1082, 1077, 33>> (* "Понял! Может быть, вас интересует что-то другое? Спросите о курсах, ценах или поддержке!" *)

\* k occurs in s at position i, letters compared without case (the i flag)
startsAtNoCase(s, k, i) ==
    /\ i + Len(k) - 1 <= Len(s)
    /\ \A j \in 1..Len(k) : Lower(s[i + j - 1]) = Lower(k[j])

\* userMessage.match(/меня зовут|я (.+)/i): "none" if there is no match, else
\* group 1 of the leftmost match, undefinedText when that is the first
\* alternative, which has no group
matchName(userMessage) ==
    LET first(i) == startsAtNoCase(userMessage, <<1084, 1077, 1085, 1103, 32, 1079, 1086,
            1074, 1091, 1090>> (* "меня зовут" *), i)
        second(i) == /\ startsAtNoCase(userMessage, <<1103, 32>> (* "я " *), i)
                     /\ i + 2 <= Len(userMessage)
                     /\ userMessage[i + 2] \notin LineTerminator
        hits == {i \in 1..Len(userMessage) : first(i) \/ second(i)}
    IN  IF hits = {} THEN nullText
        ELSE IF first(Min(hits)) THEN undefinedText
        ELSE runFrom(userMessage, (0..65535) \ LineTerminator, Min(hits) + 2)

\* `${name}` of a string or of undefined
templateText(v) == IF v = undefinedText THEN <<117, 110, 100, 101, 102, 105, 110, 101, 100>> (* "undefined" *) ELSE v

nameReplyTS(name) == <<1055, 1088, 1080, 1103, 1090, 1085, 1086, 32, 1087, 1086, 1079,
            1085, 1072, 1082, 1086, 1084, 1080, 1090, 1100, 1089, 1103, 44, 32>> (* "Приятно познакомиться, " *) \o templateText(name) \o <<33, 32, 55357,
            56842, 32, 1063, 1077, 1084, 32, 1084, 1086, 1075, 1091, 32, 1087,
            1086, 1084, 1086, 1095, 1100, 63>> (* "! 😊 Чем могу помочь?" *)

\* The value a switch branch returns, nothing else changed
returns(ts, ctx, found, text) ==
    [intents |-> found, reply |-> text] @@ result(ts, ctx, <<>>, 0, FALSE)

\* generateAIResponse(userMessage) of the testSystem class: the result of
\* the methods it called, the value it returned (nullText for null) and the
\* intent analyzeIntent returned (<<>> if it was not called)
generateAIResponseTS(ts, ctx, userMessage) ==
    IF ts.isActive THEN
        [intents |-> <<>>, reply |-> nullText]
            @@ processTestAnswer(ts, ctx, userMessage)
    ELSE
        LET intent == analyzedTS(userMessage)
            says(text) == returns(ts, ctx, <<intent>>, text)
        IN  CASE intent = "test" ->
                    [intents |-> <<intent>>, reply |-> nullText] @@ startTest(ts, ctx)
              [] intent = "greeting" -> says(greetingReply)
              [] intent = "courses" -> says(coursesReplyTS)
              [] intent = "pricing" -> says(pricingReplyTS)
              [] intent = "contacts" -> says(contactsReplyTS)
              [] intent = "about" -> says(aboutReplyTS)
              [] intent = "certificate" -> says(certificateReplyTS)
              [] intent = "instructor" -> says(instructorReplyTS)
              [] intent = "career" -> says(careerReplyTS)
              [] intent = "yes" -> says(yesReplyTS)
              [] intent = "no" -> says(noReplyTS)
              [] OTHER ->
                    IF matchName(userMessage) # nullText
                    THEN returns(ts, [ctx EXCEPT !.userName = matchName(userMessage)],
                                 <<intent>>, nameReplyTS(matchName(userMessage)))
                    ELSE says(fallbackReply)

----------------------------------------------------------------------------
(* The state after the constructor. *)

initialGreeting == <<55357, 56395, 32, 1055, 1088, 1080, 1074, 1077, 1090, 33, 32, 1071,
            32, 1074, 1072, 1096, 32, 1087, 1086, 1084, 1086, 1097, 1085, 1080,
            1082, 32, 83, 107, 105, 108, 108, 115, 83, 112, 105, 114, 101, 33,
            10, 10, 1071, 32, 1087, 1086, 1084, 1086, 1075, 1091, 58, 10, 8226,
            32, 1055, 1086, 1076, 1086, 1073, 1088, 1072, 1090, 1100, 32, 1082,
            1091, 1088, 1089, 10, 8226, 32, 1056, 1072, 1089, 1089, 1082, 1072,
            1079, 1072, 1090, 1100, 32, 1086, 32, 1087, 1088, 1086, 1075, 1088,
            1072, 1084, 1084, 1072, 1093, 32, 1086, 1073, 1091, 1095, 1077,
            1085, 1080, 1103, 10, 8226, 32, 1054, 1090, 1074, 1077, 1090, 1080,
            1090, 1100, 32, 1085, 1072, 32, 1074, 1086, 1087, 1088, 1086, 1089,
            1099, 10, 8226, 32, 1057, 1074, 1103, 1079, 1072, 1090, 1100, 32,
            1089, 32, 1087, 1086, 1076, 1076, 1077, 1088, 1078, 1082, 1086,
            1081, 10, 10, 1057, 32, 1095, 1077, 1075, 1086, 32, 1085, 1072,
            1095, 1085, 1077, 1084, 63, 32, 55357, 56842>> (* "👋 Привет! Я ваш помощник SkillsSpire!\n\nЯ помогу:\n• Подобрать курс\n• Рассказать о программах обучения\n• Ответить на вопросы\n• Связать с поддержкой\n\nС чего начнем? 😊" *)

\* No call of generateAIResponse yet
noTurn ==
    [text |-> <<>>, active |-> FALSE, step |-> nullStage, intents |-> <<>>,
     emitted |-> <<>>, threw |-> FALSE]

InitStage ==
    /\ script = "stage"
    /\ context = [lastTopic |-> null, userName |-> nullText,
                  userInterest |-> nullText, testStage |-> nullStage,
                  testAnswers |-> emptyObject]
    /\ testSystem = [isActive |-> FALSE, currentQuestion |-> 0,
                     userAnswers |-> emptyObject]
    /\ chatHistory = << [role |-> "bot", text |-> initialGreeting] >>
    /\ inputValue = <<>>
    /\ timers = <<>>
    /\ typing = 0
    /\ quickTimers = 0
    /\ quickReplies = 0
    /\ lastTurn = noTurn

initialGreetingTS == <<55357, 56395, 32, 1055, 1088, 1080, 1074, 1077, 1090, 33, 32, 1071,
            32, 1074, 1072, 1096, 32, 1091, 1084, 1085, 1099, 1081, 32, 1087,
            1086, 1084, 1086, 1097, 1085, 1080, 1082, 32, 83, 107, 105, 108,
            108, 115, 83, 112, 105, 114, 101, 33, 10, 10, 1071, 32, 1087, 1086,
            1084, 1086, 1075, 1091, 32, 1087, 1086, 1076, 1086, 1073, 1088,
            1072, 1090, 1100, 32, 1080, 1076, 1077, 1072, 1083, 1100, 1085,
            1099, 1081, 32, 1082, 1091, 1088, 1089, 44, 32, 1087, 1088, 1086,
            1081, 1090, 1080, 32, 1090, 1077, 1089, 1090, 32, 1080, 1083, 1080,
            32, 1086, 1090, 1074, 1077, 1090, 1080, 1090, 1100, 32, 1085, 1072,
            32, 1083, 1102, 1073, 1099, 1077, 32, 1074, 1086, 1087, 1088, 1086,
            1089, 1099, 33, 32, 55357, 56491>> (* "👋 Привет! Я ваш умный помощник SkillsSpire!\n\nЯ помогу подобрать идеальный курс, пройти тест или ответить на любые вопросы! 💫" *)

InitTestSystem ==
    /\ script = "testSystem"
    /\ context = [lastTopic |-> null, userName |-> nullText,
                  userInterest |-> nullText, userGoal |-> nullText,
                  userExperience |-> nullText, conversationStage |-> "greeting"]
    /\ testSystem = [isActive |-> FALSE, currentQuestion |-> 0,
                     userAnswers |-> emptyObject]
    /\ chatHistory = << [role |-> "bot", text |-> initialGreetingTS] >>
    /\ inputValue = <<>>
    /\ timers = <<>>
    /\ typing = 0
    /\ quickTimers = 0
    /\ quickReplies = 0
    /\ lastTurn = noTurn

----------------------------------------------------------------------------
(* The bounds of a conversation. *)

\* Steps of the questionnaire of the script
Steps == IF script = "stage" THEN 3 ELSE 4

\* user entries of the transcript
UserEntries == Len(SelectSeq(chatHistory, LAMBDA e : e.role = "user"))

----------------------------------------------------------------------------
(* The operations. *)

\* appendMessage leaving out a message of the role of the last one
appendMessageOnce(history, text, role) ==
    IF history[Len(history)].role = role THEN history
    ELSE Append(history, [role |-> role, text |-> text])

\* appendMessage putting the message first
appendMessageFirst(history, text, role) ==
    <<[role |-> role, text |-> text]>> \o history

\* appendMessage(text, role)
appendMessage(history, text, role) == Append(history, [role |-> role, text |-> text])

\* const delay of sendMessage: 600 + Math.random() * 1000 in ai-widget.js; in
\* the testSystem class 400 during the questionnaire, else 800 +
\* Math.random() * 800.  Whether it is the fixed one.
fixedDelay == script = "testSystem" /\ testSystem.isActive

\* sendMessage() with raw typed into the input field
sendMessage(raw) ==
    LET text == trim(raw)
    IN  IF Len(text) = 0 THEN
            /\ inputValue' = raw
            /\ UNCHANGED <<script, context, testSystem, chatHistory, timers,
                           typing, quickTimers, quickReplies, lastTurn>>
        ELSE
            /\ inputValue' = <<>>
            /\ chatHistory' = appendMessage(chatHistory, text, "user")
            /\ typing' = typing + 1
            /\ timers' = Append(timers, [text |-> text, fixed |-> fixedDelay])
            /\ UNCHANGED <<script, context, testSystem, quickTimers,
                           quickReplies, lastTurn>>

\* A message of a conversation in which the user waits for the reply before
\* writing again, and which sends at most max messages that are not empty
say(raw, max) ==
    /\ timers = <<>>
    /\ Len(trim(raw)) > 0 => UserEntries < max
    /\ sendMessage(raw)

\* The timers after the one at position i has fired
without(queue, i) == SubSeq(queue, 1, i - 1) \o SubSeq(queue, i + 1, Len(queue))

\* A timer may fire before one scheduled earlier unless that one has the fixed
\* delay, which is the shortest delay there is
mayFire(i) == \A k \in 1..(i - 1) : ~timers[k].fixed

\* The callback of sendMessage's timer in ai-widget.js
replyStage(i) ==
    /\ script = "stage"
    /\ i \in 1..Len(timers)
    /\ mayFire(i)
    /\ \E r \in {generateAIResponse(context, timers[i].text)} :
        \E history \in {IF r.threw THEN chatHistory
                        ELSE appendMessage(chatHistory, r.reply, "bot")} :
            /\ timers' = without(timers, i)
            /\ typing' = IF typing > 0 THEN typing - 1 ELSE 0
            /\ context' = r.context
            /\ chatHistory' = history
            /\ quickTimers' = IF ~r.threw /\ Len(history) <= 8
                              THEN quickTimers + 1 ELSE quickTimers
            /\ lastTurn' = [text |-> timers[i].text,
                            active |-> context.testStage # nullStage,
                            step |-> context.testStage,
                            intents |-> r.intents,
                            emitted |-> IF r.threw THEN <<>> ELSE <<r.reply>>,
                            threw |-> r.threw]
            /\ UNCHANGED <<script, testSystem, inputValue, quickReplies>>

\* The reply of ai-widget.js to a message sent after the reply before it: its
\* timer runs 600 ms or more from the message, the showQuickReplies timer of
\* the reply before it 400 ms from that reply, so that one has fired
replyInTurn(i) == quickTimers = 0 /\ replyStage(i)

\* appendMessage for each text of a list
RECURSIVE appendAll(_, _)
appendAll(history, texts) ==
    IF Len(texts) = 0 THEN history
    ELSE appendAll(appendMessage(history, texts[1], "bot"), Tail(texts))

\* if (response): a string that is not empty
truthy(text) == text # nullText /\ text # undefinedText /\ Len(text) > 0

\* The callback of sendMessage's timer in the testSystem class
replyTestSystem(i) ==
    /\ script = "testSystem"
    /\ i \in 1..Len(timers)
    /\ mayFire(i)
    /\ \E r \in {generateAIResponseTS(testSystem, context, timers[i].text)} :
        \E said \in {IF ~r.threw /\ truthy(r.reply) THEN r.emitted \o <<r.reply>>
                     ELSE r.emitted} :
        \E history \in {appendAll(chatHistory, said)} :
            /\ timers' = without(timers, i)
            /\ typing' = IF typing > 0 THEN typing - 1 ELSE 0
            /\ testSystem' = r.testSystem
            /\ context' = r.context
            /\ chatHistory' = history
            /\ quickTimers' = quickTimers + r.quick
                    + (IF ~r.threw /\ ~r.testSystem.isActive /\ Len(history) <= 8
                       THEN 1 ELSE 0)
            /\ lastTurn' = [text |-> timers[i].text,
                            active |-> testSystem.isActive,
                            step |-> testSystem.currentQuestion,
                            intents |-> r.intents,
                            emitted |-> said,
                            threw |-> r.threw]
            /\ UNCHANGED <<script, inputValue, quickReplies>>

\* showQuickReplies() from its timer
showQuickReplies ==
    /\ quickTimers > 0
    /\ quickTimers' = quickTimers - 1
    /\ quickReplies' = quickReplies + 1
    /\ UNCHANGED <<script, context, testSystem, chatHistory, inputValue, timers,
                   typing, lastTurn>>

Init == (InitStage \/ InitTestSystem) /\ noPage

\* The inputs of the script the page runs
Inputs == IF script = "stage" THEN RawInputs ELSE RawInputsTS

\* A conversation long enough for the questionnaire
Next ==
    \/ (\E raw \in Inputs : say(raw, Steps + ExtraTurns)) /\ UNCHANGED others
    \/ (\E i \in 1..Len(timers) : replyInTurn(i)) /\ UNCHANGED others
    \/ (\E i \in 1..Len(timers) : replyTestSystem(i)) /\ UNCHANGED others
    \/ showQuickReplies /\ UNCHANGED others

Spec == Init /\ [][Next]_vars

----------------------------------------------------------------------------
(* Free conversation: the quick replies and messages in which several
   intents meet. *)

NextIntent ==
    \/ (\E raw \in IntentInputs : say(raw, IntentTurns)) /\ UNCHANGED others
    \/ (\E i \in 1..Len(timers) : replyInTurn(i)) /\ UNCHANGED others
    \/ (\E i \in 1..Len(timers) : replyTestSystem(i)) /\ UNCHANGED others
    \/ showQuickReplies /\ UNCHANGED others

SpecIntent == Init /\ [][NextIntent]_vars

----------------------------------------------------------------------------
(* The last step of the questionnaire as a function of the answers recorded
   before it.  The records in which an answer is missing are inputs of the
   recommendation that no conversation produces: every step records one. *)

\* The objects with some of the keys of options, each with one of its values
Records(options) ==
    UNION { {answers \in [keys -> UNION {options[k] : k \in keys}] :
                \A k \in keys : answers[k] \in options[k]} :
            keys \in SUBSET DOMAIN options }

\* What stages 1 and 2 of handleCourseTest record
recordedStage ==
    [level |-> {"beginner", "advanced"},
     track |-> {"finance", "management", "analytics"}]

\* What questions 1 to 3 of processTestAnswer record
recordedTestSystem ==
    [q \in {questions[n].key : n \in 1..(Len(questions) - 1)} |->
        UNION { {questions[n].options[o] : o \in 1..Len(questions[n].options)} :
                n \in {m \in 1..Len(questions) : questions[m].key = q} }]

InitLastStep ==
    /\ \/ /\ script = "stage"
          /\ \E answers \in Records(recordedStage) :
                context = [lastTopic |-> "test", userName |-> nullText,
                           userInterest |-> nullText, testStage |-> 3,
                           testAnswers |-> answers]
          /\ testSystem = [isActive |-> FALSE, currentQuestion |-> 0,
                           userAnswers |-> emptyObject]
          /\ chatHistory = << [role |-> "bot", text |-> initialGreeting] >>
       \/ /\ script = "testSystem"
          /\ context = [lastTopic |-> null, userName |-> nullText,
                        userInterest |-> nullText, userGoal |-> nullText,
                        userExperience |-> nullText,
                        conversationStage |-> "greeting"]
          /\ \E answers \in Records(recordedTestSystem) :
                testSystem = [isActive |-> TRUE,
                              currentQuestion |-> Len(questions) - 1,
                              userAnswers |-> answers]
          /\ chatHistory = << [role |-> "bot", text |-> initialGreetingTS] >>
    /\ inputValue = <<>>
    /\ timers = <<>>
    /\ typing = 0
    /\ quickTimers = 0
    /\ quickReplies = 0
    /\ lastTurn = noTurn
    /\ noPage

NextLastStep ==
    \/ (\E raw \in Inputs : say(raw, LastStepTurns)) /\ UNCHANGED others
    \/ (\E i \in 1..Len(timers) : replyInTurn(i)) /\ UNCHANGED others
    \/ (\E i \in 1..Len(timers) : replyTestSystem(i)) /\ UNCHANGED others
    \/ showQuickReplies /\ UNCHANGED others

SpecLastStep == InitLastStep /\ [][NextLastStep]_vars

----------------------------------------------------------------------------
(* ai-widget.js after a first run of the questionnaire: the page of a user
   who asked for the questionnaire and answered its three questions. *)

\* The page after the user sent each message of a list and read the reply
\* to it before sending the next
RECURSIVE conversation(_, _)
conversation(page, messages) ==
    IF Len(messages) = 0 THEN page
    ELSE LET text == trim(messages[1])
             r == generateAIResponse(page.context, text)
             heard == appendMessage(page.chatHistory, text, "user")
         IN  conversation(
                [context |-> r.context,
                 chatHistory |-> IF r.threw THEN heard
                                 ELSE appendMessage(heard, r.reply, "bot"),
                 lastTurn |-> [text |-> text,
                               active |-> page.context.testStage # nullStage,
                               step |-> page.context.testStage,
                               intents |-> r.intents,
                               emitted |-> IF r.threw THEN <<>> ELSE <<r.reply>>,
                               threw |-> r.threw]],
                Tail(messages))

\* The page as the constructor leaves it
newPage ==
    [context |-> [lastTopic |-> null, userName |-> nullText,
                  userInterest |-> nullText, testStage |-> nullStage,
                  testAnswers |-> emptyObject],
     chatHistory |-> << [role |-> "bot", text |-> initialGreeting] >>,
     lastTurn |-> noTurn]

\* The answers of the first run
Answers == {<<1053, 1072, 1095, 1080, 1085, 1072, 1102, 1097, 1080, 1081>> (* "Начинающий" *), <<1092, 1080, 1085, 1072, 1085, 1089, 1099>> (* "финансы" *), <<1091, 1087, 1088, 1072, 1074, 1083, 1077, 1085,
            1080, 1077, 32, 1083, 1102, 1076, 1100, 1084, 1080, 44, 32, 56, 32,
            1085, 1077, 1076, 1077, 1083, 1100>> (* "управление людьми, 8 недель" *), <<97, 115, 100, 107,
            106, 97, 115, 100, 106>> (* "asdkjasdj" *)}

InitRestart ==
    /\ script = "stage"
    /\ \E a1 \in Answers, a2 \in Answers, a3 \in Answers :
        \E page \in {conversation(newPage, <<<<1055, 1088, 1086, 1081, 1090, 1080, 32,
            1090, 1077, 1089, 1090, 32, 1085, 1072, 32, 1082, 1091, 1088, 1089>> (* "Пройти тест на курс" *), a1, a2, a3>>)} :
            /\ context = page.context
            /\ chatHistory = page.chatHistory
            /\ lastTurn = page.lastTurn
    /\ testSystem = [isActive |-> FALSE, currentQuestion |-> 0,
                     userAnswers |-> emptyObject]
    /\ inputValue = <<>>
    /\ timers = <<>>
    /\ typing = 0
    /\ quickTimers = 0
    /\ quickReplies = Steps
    /\ lastTurn.step = Steps
    /\ noPage

\* The messages of the first run and RestartTurns more.  No timer of
\* showQuickReplies is pending and none is set: the transcript has more than
\* 8 entries.
NextRestart ==
    \/ (\E raw \in Inputs : say(raw, Steps + 1 + RestartTurns)) /\ UNCHANGED others
    \/ (\E i \in 1..Len(timers) : replyInTurn(i)) /\ UNCHANGED others

SpecRestart == InitRestart /\ [][NextRestart]_vars

----------------------------------------------------------------------------
(* ai-widget.js: several AIAssistant objects in one realm.  The objects the
   constructor makes are on a heap, and an AIAssistant holds references to
   them, so that two of them share state exactly if they hold the same
   reference. *)

\* new AIAssistant() sharing the testAnswers object of the first one
constructShared(heap) ==
    [heap |-> heap \o << newPage.context.testAnswers,
                         [newPage.context EXCEPT !.testAnswers = 1],
                         newPage.chatHistory >>,
     engine |-> [context |-> Len(heap) + 2, chatHistory |-> Len(heap) + 3]]

\* new AIAssistant(): the heap with the objects of the literals
\* testAnswers: {}, this.context = {...} and this.chatHistory = [...], and
\* the references this holds
construct(heap) ==
    [heap |-> heap \o << newPage.context.testAnswers,
                         [newPage.context EXCEPT !.testAnswers = Len(heap) + 1],
                         newPage.chatHistory >>,
     engine |-> [context |-> Len(heap) + 2, chatHistory |-> Len(heap) + 3]]

\* The realm after n calls of new AIAssistant()
RECURSIVE realm(_)
realm(n) ==
    IF n = 0 THEN [heap |-> <<>>, engines |-> <<>>]
    ELSE LET made == construct(realm(n - 1).heap)
         IN  [heap |-> made.heap,
              engines |-> Append(realm(n - 1).engines, made.engine)]

\* this.context of AIAssistant e in realm s, its testAnswers included
contextOf(s, e) ==
    LET held == s.heap[s.engines[e].context]
    IN  [held EXCEPT !.testAnswers = s.heap[held.testAnswers]]

\* this.chatHistory of AIAssistant e in realm s
chatHistoryOf(s, e) == s.heap[s.engines[e].chatHistory]

\* No message handled yet
noHandling == [text |-> <<>>, before |-> newPage.context, emitted |-> <<>>,
               after |-> newPage.context, handled |-> FALSE]

InitSessions ==
    /\ noChat
    /\ home = absent
    /\ game = absent
    /\ sessions = [heap |-> realm(Engines).heap,
                   engines |-> realm(Engines).engines,
                   turns |-> [e \in 1..Engines |-> noHandling],
                   last |-> 0,
                   count |-> 0]
    /\ assist = absent
    /\ theme = absent
    /\ mascot = absent

\* The messages the users of the AIAssistant objects write
SessionInputs ==
    { <<1055, 1088, 1086, 1081, 1090, 1080, 32, 1090, 1077, 1089, 1090, 32, 1085, 1072, 32,
        1082, 1091, 1088, 1089>> (* "Пройти тест на курс" *), <<1053, 1072, 1095, 1080, 1085, 1072, 1102, 1097, 1080, 1081>> (* "Начинающий" *), <<1087, 1088, 1080, 1074, 1077, 1090>> (* "привет" *), <<1055, 1088, 1080, 1074, 1077, 1090,
            33, 32, 1052, 1077, 1085, 1103, 32, 1079, 1086, 1074, 1091, 1090,
            32, 1040, 1085, 1085, 1072>> (* "Привет! Меня зовут Анна" *),
      <<97, 115, 100, 107, 106, 97, 115, 100, 106>> (* "asdkjasdj" *) }

\* AIAssistant e sends raw and appends the reply to it
handle(e, raw) ==
    /\ sessions.count < SessionTurns
    /\ Len(trim(raw)) > 0
    /\ LET before == contextOf(sessions, e)
           held == sessions.heap[sessions.engines[e].context]
           new == conversation([context |-> before,
                                chatHistory |-> chatHistoryOf(sessions, e),
                                lastTurn |-> noTurn], <<raw>>)
       IN  sessions' =
             [sessions EXCEPT
                !.heap = [@ EXCEPT
                    ![sessions.engines[e].context] =
                        [new.context EXCEPT !.testAnswers = held.testAnswers],
                    ![held.testAnswers] = new.context.testAnswers,
                    ![sessions.engines[e].chatHistory] = new.chatHistory],
                !.turns[e] = [text |-> new.lastTurn.text, before |-> before,
                              emitted |-> new.lastTurn.emitted,
                              after |-> new.context, handled |-> TRUE],
                !.last = e,
                !.count = @ + 1]
    /\ UNCHANGED <<chat, assist, theme, mascot, home, game>>

NextSessions == \E e \in 1..Engines, raw \in SessionInputs : handle(e, raw)

SpecSessions == InitSessions /\ [][NextSessions]_vars

----------------------------------------------------------------------------
(* A user who does not wait for the reply before writing again: several
   timers of sendMessage run at once.  A timer that is set fires. *)

\* The messages of such a user
OverlapInputs == {<<1055, 1088, 1086, 1081, 1090, 1080, 32, 1090, 1077, 1089, 1090, 32,
            1085, 1072, 32, 1082, 1091, 1088, 1089>> (* "Пройти тест на курс" *), <<1053, 1072, 1095, 1080, 1085, 1072, 1102, 1097,
            1080, 1081>> (* "Начинающий" *), <<1092, 1080, 1085, 1072, 1085,
            1089, 1099>> (* "финансы" *)}

NextOverlap ==
    \/ /\ UserEntries < OverlapTurns
       /\ \E raw \in OverlapInputs : sendMessage(raw)
       /\ UNCHANGED others
    \/ (\E i \in 1..Len(timers) : replyStage(i)) /\ UNCHANGED others
    \/ (\E i \in 1..Len(timers) : replyTestSystem(i)) /\ UNCHANGED others
    \/ showQuickReplies /\ UNCHANGED others

\* The callback of a timer of sendMessage runs: the step of replyStage or of
\* replyTestSystem, by what it does to the pending timers
fires == \E i \in 1..Len(timers) : timers' = without(timers, i)

SpecOverlap == Init /\ [][NextOverlap]_vars /\ WF_timers(fires)

----------------------------------------------------------------------------
(* part_001: the form of the assist panel.  The submit handler is an async
   function: it runs to the fetch, the request is in flight until the
   endpoint settles it, and the rest of the handler runs afterwards. *)

\* The reply of the catch branch
soon == <<1057, 1082, 1086, 1088, 1086, 32, 1087, 1086, 1076, 1082, 1083, 1102, 1095, 1080,
          1084, 32, 1048, 1048, 46, 32, 1055, 1086, 1082, 1072, 32, 1085, 1072,
          1087, 1080, 1096, 1080, 1090, 1077, 32, 1085, 1072, 1084, 32, 1074, 32,
          1084, 1077, 1089, 1089, 1077, 1085, 1076, 1078, 1077, 1088, 32, 55357,
          56391>> (* "Скоро подключим ИИ. Пока напишите нам в мессенджер 👇" *)

appendMsg(box, text, who, isTyping) ==
    Append(box, [who |-> who, text |-> text, typing |-> isTyping])

\* replaceLastTyping with every placeholder removed
replaceEveryTyping(box, text) ==
    LET kept == {i \in 1..Len(box) : ~box[i].typing}
        nth(n) == CHOOSE i \in kept : Cardinality({j \in kept : j <= i}) = n
    IN  Append([n \in 1..Cardinality(kept) |-> box[nth(n)]],
               [who |-> "bot", text |-> text, typing |-> FALSE])

\* querySelector returns the first element with data-typing in document order
replaceLastTyping(box, text) ==
    LET marked == {i \in 1..Len(box) : box[i].typing}
        first == CHOOSE i \in marked : \A j \in marked : i <= j
    IN  appendMsg(IF marked = {} THEN box ELSE without(box, first),
                  text, "bot", FALSE)

\* What the endpoint may do with a request: status 0 is a request that fails
\* (fetch rejects); json says whether the body parses as a JSON object, and
\* answer is its answer field.
Outcomes ==
    { [status |-> 0, json |-> FALSE, answer |-> undefinedText],
      [status |-> 200, json |-> TRUE, answer |-> <<1050, 1091, 1088, 1089, 32, 1087, 1086,
            32, 1089, 1090, 1088, 1072, 1090, 1077, 1075, 1080, 1080>> (* "Курс по стратегии" *) ],
      [status |-> 200, json |-> TRUE, answer |-> undefinedText],
      [status |-> 500, json |-> TRUE, answer |-> <<84, 114, 97, 99, 101, 98, 97, 99, 107,
            32, 40, 109, 111, 115, 116, 32, 114, 101, 99, 101, 110, 116, 32,
            99, 97, 108, 108, 32, 108, 97, 115, 116, 41>> (* "Traceback (most recent call last)" *) ],
      [status |-> 500, json |-> TRUE, answer |-> undefinedText],
      [status |-> 502, json |-> FALSE, answer |-> undefinedText] }

\* The text the rest of the handler shows for a settled request
answerOf(outcome) ==
    IF outcome.status = 0 \/ ~outcome.json
    THEN soon
    ELSE IF outcome.answer \in {undefinedText, nullText, <<>>}
         THEN <<1043, 1086, 1090, 1086, 1074, 1086, 46>> (* "Готово." *)
         ELSE outcome.answer

\* What the user may write in the form
AssistInputs == { <<1057, 1082, 1086, 1083, 1100, 1082, 1086, 32, 1089, 1090, 1086, 1080,
            1090, 32, 1082, 1091, 1088, 1089, 63>> (* "Сколько стоит курс?" *), <<32, 32, 32>> (* "   " *) }

waiting == [status |-> -1, json |-> FALSE, answer |-> undefinedText]

InitAssist ==
    /\ noChat
    /\ home = absent
    /\ game = absent
    /\ sessions = absent
    /\ theme = absent
    /\ mascot = absent
    /\ \E seen \in BOOLEAN, autoshow \in {0, 4000} :
           assist = [chatBox |-> <<>>, requests |-> <<>>, submitted |-> 0,
                     outcome |-> waiting, shown |-> <<>>,
                     panelOpen |-> FALSE,
                     expanded |-> FALSE,
                     teaserHidden |-> TRUE,
                     teaserSeen |-> seen,
                     autoshowTimer |-> ~seen /\ autoshow > 0]

submit(raw) ==
    LET text == trim(raw)
    IN  /\ text # <<>>
        /\ assist' = [assist EXCEPT
               !.chatBox = appendMsg(appendMsg(@, text, "user", FALSE),
                                     <<1055, 1077, 1095, 1072, 1090, 1072, 1102, 8230>> (* "Печатаю…" *), "bot", TRUE),
               !.requests = Append(@, waiting),
               !.submitted = @ + 1]
        /\ UNCHANGED <<chat, sessions, theme, mascot, home, game>>

\* The endpoint settles a request in flight
arrive(i, outcome) ==
    /\ assist.requests[i] = waiting
    /\ assist' = [assist EXCEPT !.requests[i] = outcome]
    /\ UNCHANGED <<chat, sessions, theme, mascot, home, game>>

\* The rest of the handler, after the awaits
resume(i) ==
    /\ assist.requests[i] # waiting
    /\ assist' = [assist EXCEPT
           !.chatBox = replaceLastTyping(@, answerOf(assist.requests[i])),
           !.requests = without(@, i),
           !.outcome = assist.requests[i],
           !.shown = answerOf(assist.requests[i])]
    /\ UNCHANGED <<chat, sessions, theme, mascot, home, game>>

\* The autoshow timer of the teaser fires
showTeaser ==
    /\ assist.autoshowTimer
    /\ assist' = [assist EXCEPT !.autoshowTimer = FALSE,
                                !.teaserHidden = FALSE]
    /\ UNCHANGED <<chat, sessions, theme, mascot, home, game>>

\* A click on the cross of the teaser
closeTeaser ==
    /\ ~assist.teaserHidden
    /\ assist' = [assist EXCEPT !.teaserHidden = TRUE, !.teaserSeen = TRUE]
    /\ UNCHANGED <<chat, sessions, theme, mascot, home, game>>

openPanel(a) ==
    [a EXCEPT !.panelOpen = TRUE, !.expanded = TRUE, !.teaserHidden = TRUE]

closePanel(a) ==
    [a EXCEPT !.panelOpen = FALSE, !.expanded = FALSE]

\* A click on the round button
clickFab ==
    /\ assist' = IF assist.panelOpen THEN closePanel(assist) ELSE openPanel(assist)
    /\ UNCHANGED <<chat, sessions, theme, mascot, home, game>>

\* A click on the cross of the panel, or the Escape key
dismiss ==
    /\ assist' = closePanel(assist)
    /\ UNCHANGED <<chat, sessions, theme, mascot, home, game>>

NextAssist ==
    \/ /\ assist.submitted < AssistTurns
       /\ \E raw \in AssistInputs : submit(raw)
    \/ \E i \in 1..Len(assist.requests), outcome \in Outcomes : arrive(i, outcome)
    \/ \E i \in 1..Len(assist.requests) : resume(i)
    \/ showTeaser
    \/ closeTeaser
    \/ clickFab
    \/ dismiss

\* The rest of an async function runs once its await has settled; nothing
\* makes the endpoint settle a request.
SpecAssist ==
    /\ InitAssist
    /\ [][NextAssist]_vars
    /\ WF_vars(\E i \in 1..Len(assist.requests) : resume(i))

(* part_001: the theme toggle.  localStorage outlives the page; the
   attribute, the button and the listener belong to one load of the page. *)

\* The text of the button for a theme
face(name) == IF name = <<100, 97, 114, 107>> (* "dark" *) THEN <<55356, 57118>> (* "🌞" *) ELSE <<55356, 57113>> (* "🌙" *)

\* The page after the script ran with this localStorage and this system scheme
themed(saved, systemDark, events) ==
    LET initial == IF saved \notin {nullText, <<>>}
                   THEN saved
                   ELSE IF systemDark THEN <<100, 97, 114, 107>> (* "dark" *) ELSE <<108, 105, 103, 104, 116>> (* "light" *)
    IN  [storage |-> saved,
         systemDark |-> systemDark,
         dataTheme |-> initial,
         textContent |-> face(initial),
         listening |-> saved \in {nullText, <<>>},
         events |-> events,
         last |-> "load"]

InitTheme ==
    /\ noChat
    /\ home = absent
    /\ game = absent
    /\ sessions = absent
    /\ assist = absent
    /\ mascot = absent
    /\ \E saved \in {nullText, <<100, 97, 114, 107>> (* "dark" *), <<108, 105, 103, 104, 116>> (* "light" *)}, systemDark \in BOOLEAN :
           theme = themed(saved, systemDark, 0)

\* The click handler without localStorage.setItem
clickUnsaved ==
    LET current == IF theme.dataTheme = <<>> THEN <<108, 105, 103, 104, 116>> (* "light" *) ELSE theme.dataTheme
        next == IF current = <<108, 105, 103, 104, 116>> (* "light" *) THEN <<100, 97, 114, 107>> (* "dark" *) ELSE <<108, 105, 103, 104, 116>> (* "light" *)
    IN  /\ theme' = [theme EXCEPT !.dataTheme = next,
                                  !.textContent = face(next),
                                  !.events = @ + 1,
                                  !.last = "click"]
        /\ UNCHANGED <<chat, sessions, assist, mascot, home, game>>

\* A click on #themeToggle
click ==
    LET current == IF theme.dataTheme = <<>> THEN <<108, 105, 103, 104, 116>> (* "light" *) ELSE theme.dataTheme
        next == IF current = <<108, 105, 103, 104, 116>> (* "light" *) THEN <<100, 97, 114, 107>> (* "dark" *) ELSE <<108, 105, 103, 104, 116>> (* "light" *)
    IN  /\ theme' = [theme EXCEPT !.dataTheme = next,
                                  !.storage = next,
                                  !.textContent = face(next),
                                  !.events = @ + 1,
                                  !.last = "click"]
        /\ UNCHANGED <<chat, sessions, assist, mascot, home, game>>

\* The system changes its colour scheme: the change event of the media query
change ==
    LET matches == ~theme.systemDark
        name == IF matches THEN <<100, 97, 114, 107>> (* "dark" *) ELSE <<108, 105, 103, 104, 116>> (* "light" *)
    IN  /\ theme' = IF theme.listening
                    THEN [theme EXCEPT !.systemDark = matches,
                                       !.dataTheme = name,
                                       !.textContent = face(name),
                                       !.events = @ + 1,
                                       !.last = "change"]
                    ELSE [theme EXCEPT !.systemDark = matches,
                                       !.events = @ + 1,
                                       !.last = "change"]
        /\ UNCHANGED <<chat, sessions, assist, mascot, home, game>>

\* The user opens another page of the site, or this one again
reload ==
    /\ theme' = themed(theme.storage, theme.systemDark, theme.events + 1)
    /\ UNCHANGED <<chat, sessions, assist, mascot, home, game>>

NextTheme ==
    \/ theme.events < ThemeEvents /\ click
    \/ theme.events < ThemeEvents /\ change
    \/ theme.events < ThemeEvents /\ reload

SpecTheme == InitTheme /\ [][NextTheme]_vars

(* part_001: the mascot controller.  The two versions of main.js hold the
   same controller (allowPeek is visibleForPeek in the second).  Every
   setTimeout is a flag that is TRUE while the timer is pending.  The only
   use made of the delays: a peek timer (6 s at least) set while a peek is
   shown (2.88 s in all) fires after the end of that peek, and a patrol
   timer (20 s at least) set during a patrol (14.5 s) after its end.  The
   field last names the handler that ran last. *)

edges == {"peek-left", "peek-right", "peek-top", "peek-bottom"}

\* clearTimeout of the timer a variable names: nothing if it has fired
clearTimeout(m, name, count) ==
    IF m[name] THEN [m EXCEPT ![name] = FALSE, ![count] = @ - 1] ELSE m

\* schedulePeek without clearTimeout
schedulePeekKeeps(m) ==
    IF m.reduceMotion
    THEN m
    ELSE [m EXCEPT !.peekTimer = TRUE, !.doPeeks = @ + 1]

schedulePeek(m) ==
    IF m.reduceMotion
    THEN m
    ELSE [clearTimeout(m, "peekTimer", "doPeeks") EXCEPT
              !.peekTimer = TRUE, !.doPeeks = @ + 1]

schedulePatrol(m) ==
    IF m.reduceMotion
    THEN m
    ELSE [clearTimeout(m, "patrolTimer", "patrols") EXCEPT
              !.patrolTimer = TRUE, !.patrols = @ + 1]

\* A pending timer fires: the one its variable names, or another one
pending(m, name, count, named) ==
    IF named THEN m[name] ELSE m[count] > (IF m[name] THEN 1 ELSE 0)

fire(m, name, count, named) ==
    [m EXCEPT ![count] = @ - 1,
              ![name] = IF named THEN FALSE ELSE @]

\* The controller after the script ran
InitMascot ==
    /\ noChat
    /\ home = absent
    /\ game = absent
    /\ sessions = absent
    /\ assist = absent
    /\ theme = absent
    /\ \E reduceMotion \in BOOLEAN :
           mascot = schedulePatrol(schedulePeek(
                        [reduceMotion |-> reduceMotion,
                         hidden |-> FALSE,
                         classList |-> {},
                         peekTimer |-> FALSE,
                         doPeeks |-> 0,
                         patrolTimer |-> FALSE,
                         patrols |-> 0,
                         allowPeek |-> TRUE,
                         peek |-> "none",
                         walking |-> FALSE,
                         resumed |-> FALSE,
                         last |-> "load"]))

\* doPeek without the test of document.hidden
doPeekHidden ==
    /\ mascot.peek = "none"
    /\ \E named \in BOOLEAN :
       /\ pending(mascot, "peekTimer", "doPeeks", named)
       /\ LET fired == [fire(mascot, "peekTimer", "doPeeks", named) EXCEPT
                           !.last = "doPeek"]
          IN  IF ~mascot.allowPeek
              THEN mascot' = schedulePeek(fired)
              ELSE \E edge \in edges :
                       mascot' = [fired EXCEPT
                                      !.classList = @ \cup {edge, "peek-enter"},
                                      !.peek = "enter"]
    /\ UNCHANGED <<chat, sessions, assist, theme, home, game>>

\* The peek timer fires
doPeek ==
    /\ mascot.peek = "none"
    /\ \E named \in BOOLEAN :
       /\ pending(mascot, "peekTimer", "doPeeks", named)
       /\ LET fired == [fire(mascot, "peekTimer", "doPeeks", named) EXCEPT
                           !.last = "doPeek"]
          IN  IF mascot.hidden \/ ~mascot.allowPeek
              THEN mascot' = schedulePeek(fired)
              ELSE \E edge \in edges :
                       mascot' = [fired EXCEPT
                                      !.classList = @ \cup {edge, "peek-enter"},
                                      !.peek = "enter"]
    /\ UNCHANGED <<chat, sessions, assist, theme, home, game>>

\* 500 ms after the start of a peek
peekEntered ==
    /\ mascot.peek = "enter"
    /\ mascot' = [mascot EXCEPT !.last = "peekEntered", !.classList = @ \ {"peek-enter"},
                                !.peek = "shown"]
    /\ UNCHANGED <<chat, sessions, assist, theme, home, game>>

\* 2500 ms after the start of a peek
peekExit ==
    /\ mascot.peek = "shown"
    /\ mascot' = [mascot EXCEPT !.last = "peekExit", !.classList = @ \cup {"peek-exit"},
                                !.peek = "exit"]
    /\ UNCHANGED <<chat, sessions, assist, theme, home, game>>

\* 380 ms later
peekEnd ==
    /\ mascot.peek = "exit"
    /\ mascot' = schedulePeek([mascot EXCEPT
                      !.last = "peekEnd",
                      !.classList = @ \ ({"peek-exit"} \cup edges),
                      !.peek = "none"])
    /\ UNCHANGED <<chat, sessions, assist, theme, home, game>>

\* patrol without the test of the peek classes
patrolOverPeek ==
    /\ ~mascot.walking
    /\ \E named \in BOOLEAN :
       /\ pending(mascot, "patrolTimer", "patrols", named)
       /\ LET fired == [fire(mascot, "patrolTimer", "patrols", named) EXCEPT
                           !.last = "patrol"]
          IN  mascot' = IF mascot.hidden
                     THEN schedulePatrol(fired)
                     ELSE [fired EXCEPT !.classList = @ \cup {"patrol"},
                                        !.allowPeek = FALSE,
                                        !.walking = TRUE]
    /\ UNCHANGED <<chat, sessions, assist, theme, home, game>>

\* The patrol timer fires
patrol ==
    /\ ~mascot.walking
    /\ \E named \in BOOLEAN :
       /\ pending(mascot, "patrolTimer", "patrols", named)
       /\ LET fired == [fire(mascot, "patrolTimer", "patrols", named) EXCEPT
                           !.last = "patrol"]
          IN  mascot' = IF mascot.hidden
                     THEN schedulePatrol(fired)
                     ELSE IF mascot.classList \cap edges # {}
                     THEN schedulePatrol(fired)
                     ELSE [fired EXCEPT !.classList = @ \cup {"patrol"},
                                        !.allowPeek = FALSE,
                                        !.walking = TRUE]
    /\ UNCHANGED <<chat, sessions, assist, theme, home, game>>

\* 14500 ms after the start of a patrol
patrolEnd ==
    /\ mascot.walking
    /\ mascot' = schedulePatrol([mascot EXCEPT !.last = "patrolEnd", !.classList = @ \ {"patrol"},
                                               !.allowPeek = TRUE,
                                               !.walking = FALSE])
    /\ UNCHANGED <<chat, sessions, assist, theme, home, game>>

\* The user leaves the tab or comes back to it
visibilitychange ==
    /\ mascot' = IF ~mascot.hidden
                 THEN clearTimeout(clearTimeout(
                          [mascot EXCEPT !.last = "visibilitychange",
                                         !.hidden = TRUE],
                          "peekTimer", "doPeeks"), "patrolTimer", "patrols")
                 ELSE schedulePatrol(schedulePeek(
                          [mascot EXCEPT !.last = "visibilitychange",
                                         !.hidden = FALSE,
                                         !.resumed = TRUE]))
    /\ UNCHANGED <<chat, sessions, assist, theme, home, game>>

NextMascot ==
    \/ doPeek
    \/ peekEntered
    \/ peekExit
    \/ peekEnd
    \/ patrol
    \/ patrolEnd
    \/ visibilitychange

\* A pending timer fires.  Of the timers that find the mascot busy, some find
\* it free: after a patrol the peek timer (15 s at most) fires before the
\* next patrol (20 s at least), and the delays of the patrol timer are drawn
\* at random from 20 s, while a peek takes 2.88 s of 8.88 s at least.
SpecMascot ==
    /\ InitMascot
    /\ [][NextMascot]_vars
    /\ WF_vars(peekEntered) /\ WF_vars(peekExit) /\ WF_vars(peekEnd)
    /\ WF_vars(patrolEnd)
    /\ SF_vars(doPeek /\ mascot'.peek = "enter")
    /\ SF_vars(patrol /\ mascot'.walking)

(* home.js: the popup of the test and the email subscription.  The list of
   the subscribers is the array that JSON.parse makes of the item
   skillsspire_subscribers of localStorage; the callbacks of the submissions
   wait 1000 ms each and run in the order of the submissions. *)

\* /^[^\s@]+@[^\s@]+\.[^\s@]+$/.test(email)
validateEmail(email) ==
    \E at \in 2..Len(email), dot \in 4..(Len(email) - 1) :
        /\ email[at] = 64
        /\ email[dot] = 46
        /\ at + 1 < dot
        /\ \A i \in (1..Len(email)) \ {at} : email[i] \notin WhiteSpace \cup {64}

\* What the user may write in the form
HomeInputs ==
    { <<97, 110, 110, 97, 64, 109, 97, 105, 108, 46, 114, 117>> (* "anna@mail.ru" *), <<32, 32, 97, 110, 110, 97, 64, 109, 97, 105, 108, 46, 114, 117, 32>> (* "  anna@mail.ru " *), <<98, 111, 98, 64, 109, 97, 105, 108, 46, 114, 117>> (* "bob@mail.ru" *), <<97, 110, 110, 97, 64, 109, 97,
            105, 108>> (* "anna@mail" *), <<97, 32, 98, 64, 109,
            97, 105, 108, 46, 114, 117>> (* "a b@mail.ru" *),
      <<32, 32, 32>> (* "   " *) }

InitHome ==
    /\ noChat
    /\ sessions = absent
    /\ assist = absent
    /\ theme = absent
    /\ mascot = absent
    /\ game = absent
    /\ \E stored \in {<<>>, << <<98, 111, 98, 64, 109, 97, 105, 108, 46, 114, 117>> (* "bob@mail.ru" *) >>} :
           home = [display |-> "",
                   overflow |-> "",
                   subscribers |-> stored,
                   saves |-> <<>>,
                   submitted |-> 0,
                   alert |-> "none"]

\* A click on #openTest
openTest ==
    /\ home' = [home EXCEPT !.display = "flex", !.overflow = "hidden"]
    /\ UNCHANGED <<chat, sessions, assist, theme, mascot, game>>

\* closePopup without the scrolling given back
closePopupLocked(h) == [h EXCEPT !.display = "none"]

closePopup(h) == [h EXCEPT !.display = "none", !.overflow = ""]

\* A click on #closePopup, on #closeBtn or on the popup outside its content
closeClick ==
    /\ home' = closePopup(home)
    /\ UNCHANGED <<chat, sessions, assist, theme, mascot, game>>

\* The Escape key
keydownEscape ==
    /\ home' = IF home.display = "flex" THEN closePopup(home) ELSE home
    /\ UNCHANGED <<chat, sessions, assist, theme, mascot, game>>

handleEmailSubmit(raw) ==
    LET email == trim(raw)
    IN  /\ home' = IF email = <<>>
                   THEN [home EXCEPT !.alert = "empty", !.submitted = @ + 1]
                   ELSE IF ~validateEmail(email)
                   THEN [home EXCEPT !.alert = "invalid", !.submitted = @ + 1]
                   ELSE [home EXCEPT !.saves = Append(@, email),
                                     !.submitted = @ + 1]
        /\ UNCHANGED <<chat, sessions, assist, theme, mascot, game>>

\* The callback without the test of includes
saveAgain ==
    /\ home.saves # <<>>
    /\ home' = [home EXCEPT !.subscribers = Append(@, Head(home.saves)),
                            !.saves = Tail(@),
                            !.alert = "success"]
    /\ UNCHANGED <<chat, sessions, assist, theme, mascot, game>>

\* The callback of the timer of a submission
save ==
    /\ home.saves # <<>>
    /\ home' = [home EXCEPT
           !.subscribers = IF listIncludes(@, Head(home.saves))
                           THEN @
                           ELSE Append(@, Head(home.saves)),
           !.saves = Tail(@),
           !.alert = "success"]
    /\ UNCHANGED <<chat, sessions, assist, theme, mascot, game>>

NextHome ==
    \/ openTest
    \/ closeClick
    \/ keydownEscape
    \/ /\ home.submitted < HomeTurns
       /\ \E raw \in HomeInputs : handleEmailSubmit(raw)
    \/ save

SpecHome == InitHome /\ [][NextHome]_vars

(* error.js: the dino mini-game.  bottom is dino.style.bottom in px. *)

InitGame ==
    /\ noChat
    /\ sessions = absent
    /\ assist = absent
    /\ theme = absent
    /\ mascot = absent
    /\ home = absent
    /\ game = [dinoJumping |-> FALSE,
               jumpHeight |-> 0,
               bottom |-> 0,
               intervals |-> 0,
               jumps |-> 0]

\* The keydown listener of window
keydown(key) ==
    /\ game' = IF key = " " /\ ~game.dinoJumping
               THEN [game EXCEPT !.dinoJumping = TRUE,
                                 !.jumpHeight = 0,
                                 !.intervals = @ + 1,
                                 !.jumps = @ + 1]
               ELSE game
    /\ UNCHANGED <<chat, sessions, assist, theme, mascot, home>>

\* The callback of jumpInterval, every 20 ms
jumpInterval ==
    /\ game.intervals > 0
    /\ game' = [game EXCEPT
           !.intervals = IF game.jumpHeight >= 100 THEN @ - 1 ELSE @,
           !.dinoJumping = IF game.jumpHeight >= 100 THEN FALSE ELSE @,
           !.jumpHeight = @ + 5,
           !.bottom = game.jumpHeight + 5]
    /\ UNCHANGED <<chat, sessions, assist, theme, mascot, home>>

NextGame ==
    \/ \E key \in {" ", "Enter"} :
           /\ key = " " /\ ~game.dinoJumping => game.jumps < GameJumps
           /\ keydown(key)
    \/ jumpInterval

SpecGame == InitGame /\ [][NextGame]_vars

(* The properties. *)

\* The questionnaire is active
Active == IF script = "stage" THEN context.testStage # nullStage
          ELSE testSystem.isActive

\* The catalog records a text names by their title, counted from 0
named(text) == {i \in 0..(Len(knowledgeBase) - 1) : includes(text, Course(i).title)}

\* The last call of generateAIResponse answered step `step` of the questionnaire
answered(step) == lastTurn.active /\ lastTurn.step = step

\* An answer that is the number of an option of question q or part of its text
validOption(q, text) ==
    \E n \in 1..Len(questions[q + 1].options) :
        \/ text = numberText(n)
        \/ includes(toLowerCase(questions[q + 1].options[n]), toLowerCase(text))

\* C1: once the questionnaire is triggered it is at its first step, every
\* answer (in the testSystem class: every valid option) moves it to the next
\* step, and the answer to the last step is replied to with a text that names
\* exactly one course of the catalog and leaves the questionnaire inactive:
\* testStage is null after the third answer, isActive is false after the fourth.
C1_WalkthroughEndsInOneCourse ==
    /\ (script = "stage" /\ ~lastTurn.active /\ listIncludes(lastTurn.intents, "test")
            /\ lastTurn.emitted = <<question1>>)
          => context.testStage = 1
    /\ (script = "stage" /\ lastTurn.active)
          => IF lastTurn.step = 3
             THEN /\ context.testStage = nullStage
                  /\ Len(lastTurn.emitted) = 1
                  /\ Cardinality(named(lastTurn.emitted[1])) = 1
             ELSE context.testStage = lastTurn.step + 1
    /\ (script = "testSystem" /\ ~lastTurn.active /\ lastTurn.intents = <<"test">>)
          => testSystem.isActive /\ testSystem.currentQuestion = 0
    /\ (script = "testSystem" /\ lastTurn.active
            /\ validOption(lastTurn.step, lastTurn.text))
          => IF lastTurn.step = Len(questions) - 1
             THEN /\ ~testSystem.isActive
                  /\ Len(lastTurn.emitted) = 1
                  /\ Cardinality(named(lastTurn.emitted[1])) = 1
             ELSE /\ testSystem.isActive
                  /\ testSystem.currentQuestion = lastTurn.step + 1

\* The fourth valid answer of the testSystem class has been replied to
C1_Witness ==
    /\ script = "testSystem"
    /\ answered(Len(questions) - 1)
    /\ validOption(lastTurn.step, lastTurn.text)
    /\ ~testSystem.isActive
    /\ DOMAIN testSystem.userAnswers = {"level", "interest", "duration", "goal"}
    /\ Len(lastTurn.emitted) = 1
    /\ Cardinality(named(lastTurn.emitted[1])) = 1

\* The words of the options the question of a stage of ai-widget.js offers
optionWords(stage) ==
    CASE stage = 1 -> {<<1085, 1072, 1095, 1080, 1085, 1072, 1102, 1097, 1080, 1081>> (* "начинающий" *), <<1086, 1087, 1099, 1090, 1085, 1099, 1081>> (* "опытный" *)}
      [] stage = 2 -> {<<1091, 1087, 1088, 1072, 1074, 1083, 1077, 1085, 1080, 1077, 32,
            1083, 1102, 1076, 1100, 1084, 1080>> (* "управление людьми" *), <<1088, 1072, 1073, 1086, 1090, 1072, 32, 1089,
            32, 1092, 1080, 1085, 1072, 1085, 1089, 1072, 1084, 1080>> (* "работа с финансами" *)}
      [] stage = 3 -> {<<52>> (* "4" *), <<54>> (* "6" *), <<56>> (* "8" *)}
      [] OTHER -> {}

\* An answer in which none of the options of the stage is found
unmatched(stage, text) ==
    CASE stage = 1 -> /\ ~includes(toLowerCase(text), <<1085, 1072, 1095>> (* "нач" *))
                      /\ ~includes(toLowerCase(text), <<1086, 1087, 1099, 1090>> (* "опыт" *))
      [] stage = 2 -> /\ ~includes(toLowerCase(text), <<1091, 1087, 1088, 1072, 1074>> (* "управ" *))
                      /\ ~includes(toLowerCase(text), <<1092, 1080, 1085, 1072, 1085, 1089>> (* "финанс" *))
      [] stage = 3 -> \/ matchDigits(text) = nullText
                      \/ matchDigits(text) \notin optionWords(3)
      [] OTHER -> FALSE

C3_ActiveTurnIsOnlyAnAnswer ==
    [][(Len(timers') < Len(timers) /\ Active)
            => /\ lastTurn'.intents = <<>>
               /\ context'.lastTopic = context.lastTopic
               /\ context'.userName = context.userName]_vars

\* A greeting with a name was taken as the answer to a step of ai-widget.js
C3_Witness ==
    /\ script = "stage"
    /\ lastTurn.active
    /\ lastTurn.text = <<1087, 1088, 1080, 1074, 1077, 1090, 44, 32, 1084, 1077, 1085,
            1103, 32, 1079, 1086, 1074, 1091, 1090, 32, 1072, 1085, 1085, 1072>> (* "привет, меня зовут анна" *)
    /\ lastTurn.intents = <<>>
    /\ context.userName = nullText
    /\ context.lastTopic = "test"

\* C4: testStage is always null, 1, 2 or 3; in the testSystem class isActive
\* implies 0 <= currentQuestion < questions.length; the questionnaire stays
\* active through the turns that answer its earlier steps, and the turn that
\* answers its last step both makes it inactive and emits the recommendation.
C4_InactiveOrAtValidStep ==
    /\ script = "stage" => context.testStage \in {nullStage, 1, 2, 3}
    /\ (script = "testSystem" /\ testSystem.isActive)
          => testSystem.currentQuestion \in 0..(Len(questions) - 1)
    /\ (script = "stage" /\ lastTurn.active)
          => IF lastTurn.step = 3
             THEN /\ ~Active
                  /\ \E i \in 0..(Len(knowledgeBase) - 1) :
                        lastTurn.emitted = <<recommendationText(Course(i))>>
             ELSE Active
    /\ (script = "testSystem" /\ lastTurn.active)
          => IF lastTurn.step = Len(questions) - 1
                  /\ lastTurn.emitted # <<clarification>>
             THEN /\ ~Active
                  /\ \E i \in 0..(Len(knowledgeBase) - 1) :
                        lastTurn.emitted = <<recommendationTextTS(Course(i))>>
             ELSE Active

\* The third answer of ai-widget.js has been replied to
C4_Witness ==
    /\ script = "stage"
    /\ answered(3)
    /\ context.testStage = nullStage
    /\ DOMAIN context.testAnswers = {"level", "track", "duration"}
    /\ lastTurn.emitted = <<recommendationText(Course(1))>>

\* C5: every call of generateAIResponse of ai-widget.js, in free
\* conversation and at every stage of the questionnaire, returns a text that
\* is not empty, and none throws.
C5_ReplyIsNeverEmpty ==
    (script = "stage" /\ lastTurn # noTurn)
        => /\ ~lastTurn.threw
           /\ Len(lastTurn.emitted) = 1
           /\ lastTurn.emitted[1] \notin {undefinedText, nullText}
           /\ Len(lastTurn.emitted[1]) > 0

\* A message with no meaning was replied to at the last stage
C5_Witness ==
    /\ script = "stage"
    /\ answered(3)
    /\ lastTurn.text = <<97, 115, 100, 107, 106, 97, 115, 100, 106>> (* "asdkjasdj" *)
    /\ ~lastTurn.threw
    /\ Len(lastTurn.emitted) = 1
    /\ Len(lastTurn.emitted[1]) > 0
    /\ context.testAnswers["duration"] = 6

\* A text of white space only
blank(text) == \A i \in 1..Len(text) : text[i] \in WhiteSpace \cup LineTerminator

\* C6: a call of sendMessage with an input that is empty or white space only
\* changes nothing but leaves the input as it is: the transcript, the reply
\* timers, the typing indicator, the quick replies and the context stay as
\* they were; so no entry of the transcript and no reply timer is ever for
\* a blank text.
C6_BlankInputIsNoOp ==
    /\ [][\A raw \in Inputs :
            (blank(raw) /\ sendMessage(raw))
                => UNCHANGED <<script, context, testSystem, chatHistory, timers,
                               typing, quickTimers, quickReplies, lastTurn>>]_vars
    /\ [](\A i \in 1..Len(timers) : ~blank(timers[i].text))
    /\ [](\A i \in 1..Len(chatHistory) : ~blank(chatHistory[i].text))

\* White space was sent in the middle of the questionnaire
C6_Witness ==
    /\ script = "stage"
    /\ inputValue = <<32, 32, 32>> (* "   " *)
    /\ context.testStage = 2
    /\ timers = <<>>
    /\ Len(chatHistory) = 5

\* The course the answer to stage 2 stands for, counted from 0
courseOfInterest(answer) ==
    IF includes(toLowerCase(answer), <<1092, 1080, 1085, 1072, 1085, 1089>> (* "финанс" *)) THEN 2
    ELSE IF includes(toLowerCase(answer), <<1091, 1087, 1088, 1072, 1074>> (* "управ" *)) THEN 1
    ELSE 0

\* The transcript ends with the answer to stage 2, the third question, the
\* answer to it and the reply to that
walked ==
    /\ script = "stage"
    /\ answered(3)
    /\ timers = <<>>
    /\ Len(chatHistory) >= 5
    /\ chatHistory[Len(chatHistory) - 2] = [role |-> "bot", text |-> question3]

\* C7: the reply to the third answer recommends the course the answer to
\* stage 2 stands for, whatever was answered at stages 1 and 3, so that the
\* same answer at stage 2 always gets the same course; an answer that names
\* finance gets 'Финансовая грамотность для руководителей'; testStage is null.
C7_CourseFollowsInterest ==
    walked =>
        /\ context.testStage = nullStage
        /\ chatHistory[Len(chatHistory)] =
                [role |-> "bot",
                 text |-> recommendationText(
                    Course(courseOfInterest(chatHistory[Len(chatHistory) - 3].text)))]
        /\ includes(toLowerCase(chatHistory[Len(chatHistory) - 3].text), <<1092, 1080,
            1085, 1072, 1085, 1089>> (* "финанс" *))
              => named(chatHistory[Len(chatHistory)].text) = {2}

\* The answers 'Начинающий', 'финансы', '6' got the finance course
C7_Witness ==
    /\ walked
    /\ Len(chatHistory) = 9
    /\ chatHistory[4].text = <<1053, 1072, 1095, 1080, 1085, 1072, 1102, 1097, 1080, 1081>> (* "Начинающий" *)
    /\ chatHistory[6].text = <<1092, 1080, 1085, 1072, 1085, 1089, 1099>> (* "финансы" *)
    /\ chatHistory[8].text = <<54>> (* "6" *)
    /\ named(chatHistory[9].text) = {2}
    /\ context.testStage = nullStage

\* The last question of the testSystem class has been answered
finished ==
    /\ script = "testSystem"
    /\ answered(Len(questions) - 1)
    /\ ~testSystem.isActive

\* The course the code takes the interest answer to stand for, counted from 0
courseOfInterestTS(answers) ==
    IF ~Has(answers, "interest") THEN 2
    ELSE IF answers["interest"] = questions[2].options[1] THEN 1
    ELSE IF answers["interest"] = questions[2].options[2] THEN 0
    ELSE 2

\* The courses that last as long as the duration answer says
coursesOfDuration(answers) ==
    {i \in 0..(Len(knowledgeBase) - 1) :
        Has(answers, "duration") /\ includes(answers["duration"], Course(i).duration)}

\* C8 as it is written: when the interest answer and the duration answer
\* stand for different courses, the course of the interest is recommended.
C8_InterestBeatsDuration ==
    (/\ finished
     /\ Has(testSystem.userAnswers, "interest")
     /\ coursesOfDuration(testSystem.userAnswers) # {}
     /\ courseOfInterestTS(testSystem.userAnswers)
            \notin coursesOfDuration(testSystem.userAnswers))
        => /\ Len(lastTurn.emitted) = 1
           /\ named(lastTurn.emitted[1]) = {courseOfInterestTS(testSystem.userAnswers)}

\* C8: generateRecommendation recommends the course of the interest answer
\* (the finance course if there is none), unless the duration answer is the
\* 8 weeks option: then it recommends 'Стратегический менеджмент и
\* бизнес-планирование' whatever the interest.  The 4 and 6 weeks options,
\* the level and the goal change nothing.
C8_EightWeeksBeatInterest ==
    finished
        => /\ Len(lastTurn.emitted) = 1
           /\ named(lastTurn.emitted[1]) =
                {IF Has(testSystem.userAnswers, "duration")
                      /\ testSystem.userAnswers["duration"] = questions[3].options[3]
                 THEN 1
                 ELSE courseOfInterestTS(testSystem.userAnswers)}

\* Data analysis as the interest and 8 weeks got the management course
C8_Witness ==
    /\ finished
    /\ Has(testSystem.userAnswers, "interest")
    /\ Has(testSystem.userAnswers, "duration")
    /\ testSystem.userAnswers["interest"] = questions[2].options[2]
    /\ testSystem.userAnswers["duration"] = questions[3].options[3]
    /\ Len(lastTurn.emitted) = 1
    /\ named(lastTurn.emitted[1]) = {1}

\* C9: whatever answers were recorded, and whichever are missing, the reply
\* to the last answer of the questionnaire is the recommendation of exactly
\* one of the three records of the catalog, and computing it does not throw.
C9_RecommendationIsTotal ==
    /\ (script = "stage" /\ answered(3))
          => /\ ~lastTurn.threw
             /\ Len(lastTurn.emitted) = 1
             /\ Cardinality({i \in 0..2 :
                    lastTurn.emitted[1] = recommendationText(knowledgeBase[i + 1])}) = 1
    /\ finished
          => /\ ~lastTurn.threw
             /\ Len(lastTurn.emitted) = 1
             /\ Cardinality({i \in 0..2 :
                    lastTurn.emitted[1] = recommendationTextTS(knowledgeBase[i + 1])}) = 1

\* A recommendation was made with the interest and the duration missing
C9_Witness ==
    /\ finished
    /\ ~Has(testSystem.userAnswers, "interest")
    /\ ~Has(testSystem.userAnswers, "duration")
    /\ lastTurn.emitted = <<recommendationTextTS(knowledgeBase[3])>>

\* The order of C10, the instructor being the intent teacher of the code
precedence ==
    <<"name", "greeting", "farewell", "thanks", "courses", "pricing", "contacts",
      "about", "certificate", "teacher", "career", "goal", "general">>

\* The first intent of the order among those found
highest(found) ==
    precedence[Min({k \in 1..Len(precedence) : listIncludes(found, precedence[k])})]

\* The reply of an intent of the order to a message
replyOf(intent, message) ==
    CASE intent = "name" ->
            nameReply(capitalize(matchSpacedWord(<<1084, 1077, 1085, 1103, 32, 1079, 1086,
            1074, 1091, 1090>> (* "меня зовут" *), toLowerCase(message))))
      [] intent = "greeting" -> greetingReply
      [] intent = "farewell" -> farewellReply
      [] intent = "thanks" -> thanksReply
      [] intent = "courses" -> coursesReply
      [] intent = "pricing" -> pricingReply
      [] intent = "contacts" -> contactsReply
      [] intent = "about" -> aboutReply
      [] intent = "certificate" -> certificateReply
      [] intent = "teacher" -> teacherReply
      [] intent = "career" -> careerReply
      [] intent = "goal" -> goalReply(toLowerCase(message))
      [] OTHER -> fallbackReply

\* A call in free conversation that found only intents of the order, and the
\* name, if it found the intent name
ordered ==
    /\ script = "stage"
    /\ lastTurn # noTurn
    /\ ~lastTurn.active
    /\ \A i \in 1..Len(lastTurn.intents) :
            \E k \in 1..Len(precedence) : lastTurn.intents[i] = precedence[k]
    /\ listIncludes(lastTurn.intents, "name")
          => matchSpacedWord(<<1084, 1077, 1085, 1103, 32, 1079, 1086, 1074, 1091, 1090>> (* "меня зовут" *), toLowerCase(lastTurn.text)) # nullText

\* C10 as it is written: the reply to a message in which several intents
\* of the order are found is the reply of the first of them in the order name,
\* greeting, farewell, thanks, courses, pricing, contacts, about, certificate,
\* instructor, career, goal, general.
C10_HighestIntentReplies ==
    ordered => lastTurn.emitted = <<replyOf(highest(lastTurn.intents), lastTurn.text)>>

\* A call of generateAIResponse of ai-widget.js in free conversation was the last
freeTurn == script = "stage" /\ lastTurn # noTurn /\ ~lastTurn.active

\* The branches of generateAIResponse in the order it tries them
ladder ==
    <<"name", "greeting", "farewell", "thanks", "personal", "smalltalk", "test",
      "goal", "courses", "pricing", "contacts", "about", "certificate", "teacher",
      "career", "business_analytics", "strategy", "finance">>

\* The name branch replies only if the name is captured
captured(text) ==
    matchSpacedWord(<<1084, 1077, 1085, 1103, 32, 1079, 1086, 1074, 1091, 1090>> (* "меня зовут" *), [i \in 1..Len(text) |-> Lower(text[i])]) # nullText

\* The intent whose branch replies to a message with the intents found
replying(found, text) ==
    LET taken == {k \in 1..Len(ladder) :
                    /\ listIncludes(found, ladder[k])
                    /\ ladder[k] = "name" => captured(text)}
    IN  IF taken = {} THEN "general" ELSE ladder[Min(taken)]

\* C11 as it is written: after a turn of free conversation lastTopic is the
\* intent whose branch produced the reply.
C11_TopicIsReplyingIntent ==
    freeTurn => context.lastTopic = replying(lastTurn.intents, lastTurn.text)

\* C11: after a turn of free conversation lastTopic is the first intent of
\* the list analyzeIntent returned, in the order of its table of patterns,
\* whichever branch produced the reply.
C11_TopicIsFirstFound ==
    freeTurn => /\ Len(lastTurn.intents) >= 1
                /\ context.lastTopic = lastTurn.intents[1]

\* The name branch replied and the topic is the greeting found before it
C11_Witness ==
    /\ freeTurn
    /\ lastTurn.intents = <<"greeting", "name">>
    /\ replying(lastTurn.intents, lastTurn.text) = "name"
    /\ lastTurn.emitted = <<nameReply(<<1040, 1085, 1085, 1072>> (* "Анна" *))>>
    /\ context.lastTopic = "greeting"

\* A message with one of the words of the greeting pattern, in any case
greets(text) ==
    \E word \in {<<1087, 1088, 1080, 1074, 1077, 1090>> (* "привет" *), <<1079, 1076, 1088, 1072, 1074, 1089, 1090, 1074>> (* "здравств" *), <<1076, 1086, 1073, 1088>> (* "добр" *), <<104, 101, 108, 108, 111>> (* "hello" *), <<104, 105>> (* "hi" *)} :
        includes([i \in 1..Len(text) |-> Lower(text[i])], word)

\* C12: in free conversation a message that matches the greeting pattern,
\* and from which no name is captured, gets lastTopic 'greeting' and the
\* greeting reply, which is not empty, and does not start the questionnaire.
C12_GreetingIsGreeted ==
    (freeTurn /\ greets(lastTurn.text) /\ ~captured(lastTurn.text))
        => /\ context.lastTopic = "greeting"
           /\ lastTurn.emitted = <<greetingReply>>
           /\ Len(greetingReply) > 0
           /\ context.testStage = nullStage

\* A greeting that asks for the test was greeted, no more
C12_Witness ==
    /\ freeTurn
    /\ lastTurn.text = <<1087, 1088, 1080, 1074, 1077, 1090, 44, 32, 1085, 1091, 1078,
            1077, 1085, 32, 1090, 1077, 1089, 1090>> (* "привет, нужен тест" *)
    /\ listIncludes(lastTurn.intents, "greeting")
    /\ listIncludes(lastTurn.intents, "test")
    /\ lastTurn.emitted = <<greetingReply>>
    /\ context.testStage = nullStage

\* A call of generateAIResponse of the testSystem class in free conversation
\* was the last
freeTurnTS == script = "testSystem" /\ lastTurn # noTurn /\ ~lastTurn.active

\* A message with a word of the pricing pattern and the word for a course
asksPrice(text) ==
    LET lower == [i \in 1..Len(text) |-> Lower(text[i])]
    IN  /\ includes(lower, <<1082, 1091, 1088, 1089>> (* "курс" *))
        /\ \E word \in {<<1094, 1077, 1085, 1072>> (* "цена" *), <<1089, 1090, 1086, 1080, 1084>> (* "стоим" *), <<1086, 1087, 1083, 1072, 1090>> (* "оплат" *), <<1089, 1082, 1086, 1083, 1100, 1082, 1086>> (* "сколько" *)} : includes(lower, word)

\* None of the intents ai-widget.js tries before courses was found
plainStage(found) ==
    \A i \in 1..Len(found) :
        found[i] \notin {"greeting", "farewell", "thanks", "personal", "smalltalk",
                         "name", "goal", "test"}

\* None of the patterns the testSystem class tries before courses matches
plainTS(text) ==
    \A k \in 1..Len(intentsTS) :
        intentsTS[k].intent \in {"test", "greeting"}
            => ~test(intentsTS[k].pattern, [i \in 1..Len(text) |-> Lower(text[i])])

\* The reply holds the price of each course of the catalog
pricesAll(emitted) ==
    /\ Len(emitted) = 1
    /\ \A i \in 0..(Len(knowledgeBase) - 1) : includes(emitted[1], Course(i).price)

\* C13 as it is written: a message that asks the price of a course gets the
\* intent pricing and a reply with the prices of the three courses.
C13_PriceQuestionIsPricing ==
    /\ (freeTurn /\ asksPrice(lastTurn.text) /\ plainStage(lastTurn.intents))
          => context.lastTopic = "pricing" /\ pricesAll(lastTurn.emitted)
    /\ (freeTurnTS /\ asksPrice(lastTurn.text) /\ plainTS(lastTurn.text))
          => lastTurn.intents = <<"pricing">> /\ pricesAll(lastTurn.emitted)

\* C13: a message that asks the price of a course, and matches no pattern
\* tried before the course pattern, gets the intent courses, not pricing: in
\* ai-widget.js analyzeIntent returns courses first and pricing after it and
\* lastTopic is 'courses', in the testSystem class analyzeIntent returns
\* 'courses'.  The reply is the list of courses, which holds the prices of
\* the three courses.
C13_PriceQuestionIsCourses ==
    /\ (freeTurn /\ asksPrice(lastTurn.text) /\ plainStage(lastTurn.intents))
          => /\ lastTurn.intents[1] = "courses"
             /\ listIncludes(lastTurn.intents, "pricing")
             /\ context.lastTopic = "courses"
             /\ lastTurn.emitted = <<coursesReply>>
             /\ pricesAll(lastTurn.emitted)
    /\ (freeTurnTS /\ asksPrice(lastTurn.text) /\ plainTS(lastTurn.text))
          => /\ lastTurn.intents = <<"courses">>
             /\ lastTurn.emitted = <<coursesReplyTS>>
             /\ pricesAll(lastTurn.emitted)

\* 'сколько стоит курс' got the list of courses of the testSystem class
C13_Witness ==
    /\ freeTurnTS
    /\ lastTurn.text = <<1089, 1082, 1086, 1083, 1100, 1082, 1086, 32, 1089, 1090, 1086,
            1080, 1090, 32, 1082, 1091, 1088, 1089>> (* "сколько стоит курс" *)
    /\ asksPrice(lastTurn.text)
    /\ plainTS(lastTurn.text)
    /\ lastTurn.intents = <<"courses">>
    /\ pricesAll(lastTurn.emitted)

\* No pattern of the table of ai-widget.js matches the message
patternless(text) ==
    \A k \in 1..Len(intents) :
        ~test(intents[k].pattern, [i \in 1..Len(text) |-> Lower(text[i])])

\* The timer of a message written in free conversation fires in ai-widget.js
freeReply ==
    /\ script = "stage"
    /\ context.testStage = nullStage
    /\ Len(timers) = 1
    /\ timers' = <<>>

\* C14: analyzeIntent of ai-widget.js returns a list that is not empty, and
\* the list is ['general'] exactly when no pattern matches the message; the
\* reply to such a message in free conversation is the fallback text,
\* lastTopic becomes 'general' and no other field of context changes.
C14_GeneralIffNoPattern ==
    [][freeReply =>
        /\ Len(lastTurn'.intents) >= 1
        /\ lastTurn'.intents = <<"general">> <=> patternless(timers[1].text)
        /\ patternless(timers[1].text) =>
            /\ context' = [context EXCEPT !.lastTopic = "general"]
            /\ lastTurn'.emitted = <<fallbackReply>>
            /\ chatHistory' = Append(chatHistory,
                                     [role |-> "bot", text |-> fallbackReply])]_vars

\* 'asdkjasdj' after the user gave a name: the fallback reply, and the name
\* is kept
C14_Witness ==
    /\ freeTurn
    /\ lastTurn.text = <<97, 115, 100, 107, 106, 97, 115, 100, 106>> (* "asdkjasdj" *)
    /\ patternless(lastTurn.text)
    /\ lastTurn.intents = <<"general">>
    /\ lastTurn.emitted = <<fallbackReply>>
    /\ context.lastTopic = "general"
    /\ context.userName = <<1040, 1085, 1085, 1072>> (* "Анна" *)

\* The key of testAnswers that stage n of handleCourseTest writes
stageKey == <<"level", "track", "duration">>

\* The questions of handleCourseTest by stage
stageQuestion == <<question1, question2, question3>>

\* The pattern of the intent test of ai-widget.js matches the message
asksTest(text) ==
    \E k \in 1..Len(intents) :
        /\ intents[k].intent = "test"
        /\ test(intents[k].pattern, [i \in 1..Len(text) |-> Lower(text[i])])

\* The timer of a message that asks for the questionnaire fires in
\* ai-widget.js while the questionnaire is at one of its stages
retrigger ==
    /\ script = "stage"
    /\ context.testStage \in 1..Len(stageKey)
    /\ Len(timers) = 1
    /\ timers' = <<>>
    /\ asksTest(timers[1].text)

\* after is before with the key of stage n written and no other key touched
recordedAt(n, before, after) ==
    /\ DOMAIN after.testAnswers = DOMAIN before.testAnswers \cup {stageKey[n]}
    /\ \A k \in DOMAIN before.testAnswers \ {stageKey[n]} :
            after.testAnswers[k] = before.testAnswers[k]
    /\ after.testStage = IF n = Len(stageKey) THEN nullStage ELSE n + 1
    /\ \A f \in DOMAIN before \ {"testAnswers", "testStage"} : after[f] = before[f]

started == freeTurn /\ replying(lastTurn.intents, lastTurn.text) = "test"

\* C16: starting the questionnaire from free conversation in ai-widget.js
\* leaves it at its first stage with no answer of an earlier run in
\* context.testAnswers, and the reply is the first question.
C16_StartCarriesNoAnswers ==
    started =>
        /\ context.testStage = 1
        /\ lastTurn.emitted = <<question1>>
        /\ context.testAnswers = emptyObject

\* The timer of a message written during the questionnaire of the
\* testSystem class fires: the message goes to processTestAnswer
answerStep ==
    /\ script = "testSystem"
    /\ testSystem.isActive
    /\ testSystem.currentQuestion \in 0..(Len(questions) - 1)
    /\ Len(timers) = 1
    /\ timers' = <<>>

\* text in lower case
lowered(text) == [i \in 1..Len(text) |-> Lower(text[i])]

\* Option n of question q fits the text of an answer: the text is part of
\* it, or its first word is part of the text
fits(q, n, text) ==
    \/ includes(lowered(questions[q + 1].options[n]), lowered(text))
    \/ includes(lowered(text), lowered(firstWord(questions[q + 1].options[n])))

\* An answer to question q with none of the digits 1, 2, 3 that no option fits
unresolved(q, text) ==
    /\ \A i \in 1..Len(text) : text[i] \notin {49, 50, 51}
    /\ \A n \in 1..Len(questions[q + 1].options) : ~fits(q, n, text)

\* C17: an answer processTestAnswer cannot place leaves currentQuestion,
\* userAnswers and isActive as they are and appends the clarification, once,
\* to the transcript; the next answer is treated the same way.
C17_UnresolvedAnswerIsAskedAgain ==
    [][(answerStep /\ unresolved(testSystem.currentQuestion, timers[1].text)) =>
        /\ testSystem' = testSystem
        /\ chatHistory' = Append(chatHistory, [role |-> "bot", text |-> clarification])
        /\ lastTurn'.emitted = <<clarification>>]_vars

\* Two answers in a row that question 1 has no option for, each followed by
\* the clarification
C17_Witness ==
    /\ script = "testSystem"
    /\ answered(0)
    /\ unresolved(0, lastTurn.text)
    /\ testSystem = [isActive |-> TRUE, currentQuestion |-> 0,
                     userAnswers |-> emptyObject]
    /\ Len(chatHistory) = 7
    /\ chatHistory[5] = [role |-> "bot", text |-> clarification]
    /\ chatHistory[7] = [role |-> "bot", text |-> clarification]

\* The options of question q an answer can resolve to: the one of its
\* first digit 1, 2 or 3, or without such a digit the first that fits
resolved(q, text) ==
    LET digits == {i \in 1..Len(text) : text[i] \in {49, 50, 51}}
        fitting == {n \in 1..Len(questions[q + 1].options) : fits(q, n, text)}
    IN  IF digits # {} THEN {text[Min(digits)] - 48}
        ELSE IF fitting # {} THEN {Min(fitting)}
        ELSE {}

\* C18: an answer processTestAnswer resolves to option i of the current
\* question stores exactly that option under the key of the question, adds
\* one to currentQuestion and leaves the answers under the other keys as
\* they are.
C18_ResolvedAnswerIsStored ==
    [][answerStep =>
        \A i \in resolved(testSystem.currentQuestion, timers[1].text) :
            LET question == questions[testSystem.currentQuestion + 1]
            IN  /\ testSystem'.userAnswers
                        = Put(testSystem.userAnswers, question.key, question.options[i])
                /\ testSystem'.userAnswers[question.key] = question.options[i]
                /\ \A k \in DOMAIN testSystem.userAnswers \ {question.key} :
                        testSystem'.userAnswers[k] = testSystem.userAnswers[k]
                /\ testSystem'.currentQuestion = testSystem.currentQuestion + 1]_vars

\* '8 недель' as the answer of question 3, after the options 1 and 2 of the
\* questions before it: the third option is stored under duration
C18_Witness ==
    /\ script = "testSystem"
    /\ answered(2)
    /\ lastTurn.text = <<56, 32, 1085, 1077, 1076, 1077, 1083, 1100>> (* "8 недель" *)
    /\ resolved(2, lastTurn.text) = {3}
    /\ testSystem.currentQuestion = 3
    /\ testSystem.userAnswers = [level |-> questions[1].options[1],
                                 interest |-> questions[2].options[2],
                                 duration |-> questions[3].options[3]]

\* The numeral an answer starts with, 0 if it starts with no digit
leadingNumeral(text) ==
    IF Len(text) > 0 /\ text[1] \in Digit THEN parseInt(matchDigits(text)) ELSE 0

\* C19: processTestAnswer resolves an answer by the numeral it starts with,
\* if that is the number of an option, and else by the text: an option fits
\* if the answer is part of it or the other way round, whatever the case.  A
\* digit elsewhere in the answer takes no part, so an answer that starts
\* with no numeral and fits option k stores option k.
C19_OnlyLeadingNumeralCounts ==
    (script = "testSystem" /\ lastTurn.active /\ ~lastTurn.threw
        /\ lastTurn.step \in 0..(Len(questions) - 1)) =>
        LET q == lastTurn.step
            question == questions[q + 1]
            numeral == leadingNumeral(lastTurn.text)
            fitting == {n \in 1..Len(question.options) : fits(q, n, lastTurn.text)}
            stores(options) ==
                /\ testSystem.currentQuestion = q + 1
                /\ Has(testSystem.userAnswers, question.key)
                /\ \E n \in options :
                        testSystem.userAnswers[question.key] = question.options[n]
        IN  IF numeral \in 1..Len(question.options) THEN stores({numeral})
            ELSE IF fitting # {} THEN stores(fitting)
            ELSE /\ testSystem.currentQuestion = q
                 /\ lastTurn.emitted = <<clarification>>

\* C20: chatHistory only grows at its end: in every step the transcript
\* before the step is a prefix of the transcript after it, so no entry is
\* edited, moved or removed.
C20_TranscriptIsAppendOnly ==
    [][/\ Len(chatHistory') >= Len(chatHistory)
       /\ SubSeq(chatHistory', 1, Len(chatHistory)) = chatHistory]_vars

\* A transcript of the questionnaire of the testSystem class: the greeting
\* of the constructor is still its first entry after three messages and
\* their replies
C20_Witness ==
    /\ script = "testSystem"
    /\ Len(chatHistory) = 7
    /\ chatHistory[1] = [role |-> "bot", text |-> initialGreetingTS]
    /\ chatHistory[2].role = "user"
    /\ chatHistory[6].role = "user"
    /\ chatHistory[7].role = "bot"
    /\ timers = <<>>

\* AIAssistant objects d and e handled the same message from equal contexts
sameTurn(d, e) ==
    /\ sessions.turns[d].handled
    /\ sessions.turns[e].handled
    /\ sessions.turns[d].text = sessions.turns[e].text
    /\ sessions.turns[d].before = sessions.turns[e].before

C23_SessionsAreSeparate ==
    [][\A e \in 1..Engines :
        e # sessions'.last =>
            /\ contextOf(sessions', e) = contextOf(sessions, e)
            /\ chatHistoryOf(sessions', e) = chatHistoryOf(sessions, e)]_vars

\* The first object is at stage 2 of the questionnaire with a level
\* recorded, the second, which handled a message in between, has an empty
\* testAnswers, no stage and its own transcript
C23_Witness ==
    /\ contextOf(sessions, 1).testStage = 2
    /\ contextOf(sessions, 1).testAnswers = [level |-> "beginner"]
    /\ sessions.turns[2].handled
    /\ contextOf(sessions, 2).testStage = nullStage
    /\ contextOf(sessions, 2).testAnswers = emptyObject
    /\ contextOf(sessions, 2).lastTopic = "greeting"
    /\ Len(chatHistoryOf(sessions, 1)) = 5
    /\ Len(chatHistoryOf(sessions, 2)) = 3

\* bot entries of the transcript
BotEntries == Len(SelectSeq(chatHistory, LAMBDA e : e.role = "bot"))

\* C22: a message that is not empty gets one user entry when it is sent and
\* one bot entry when its timer fires: the bot entries are never more than
\* the user entries and the greeting, they are as many when no timer is
\* pending, and every timer that is pending fires.
C22_OneReplyPerMessage ==
    /\ [](/\ BotEntries <= 1 + UserEntries
          /\ BotEntries + Len(timers) = 1 + UserEntries)
    /\ [][/\ Len(timers') > Len(timers) =>
                /\ timers' = Append(timers, timers'[Len(timers')])
                /\ chatHistory' = Append(chatHistory,
                        [role |-> "user", text |-> timers'[Len(timers')].text])
          /\ Len(timers') < Len(timers) =>
                /\ Len(timers') = Len(timers) - 1
                /\ Len(chatHistory') = Len(chatHistory) + 1
                /\ chatHistory'[Len(chatHistory')].role = "bot"]_vars
    /\ \A n \in 1..OverlapTurns : (Len(timers) = n) ~> (Len(timers) < n)

\* Three messages sent before the first reply, and all three answered
C22_Witness ==
    /\ script = "testSystem"
    /\ timers = <<>>
    /\ Len(chatHistory) = 7
    /\ \A n \in 2..4 : chatHistory[n].role = "user"
    /\ \A n \in 5..7 : chatHistory[n].role = "bot"

\* C26: the replies are appended in the order in which their messages were
\* sent: of the pending timers, which are in the order of sending, the one
\* that fires is the first.
C26_RepliesInOrderOfSending ==
    [][Len(timers') < Len(timers) => timers' = Tail(timers)]_vars

\* The texts of the user entries of the transcript, in the order of sending
sent == [n \in 1..UserEntries |->
            SelectSeq(chatHistory, LAMBDA e : e.role = "user")[n].text]

\* The first question was in the transcript before the user wrote again
asked(question) ==
    /\ Len(chatHistory) >= 3
    /\ chatHistory[3] = [role |-> "bot", text |-> question]

\* C27: the answers of the questionnaire are taken in the order of sending:
\* of the messages sent after the first question appeared, the first is
\* the answer of step 1 (level), the second of step 2 (track), the third of
\* step 3 (duration), also when they are sent before the next question
\* appears; in part_002 the level is the option of the first such message
\* that names one.
C27_AnswersInOrderOfSending ==
    /\ (script = "stage" /\ asked(question1)) =>
        /\ Has(context.testAnswers, "level") =>
                context.testAnswers.level = levelOf(sent[2])
        /\ Has(context.testAnswers, "track") =>
                context.testAnswers.track = trackOf(sent[3])
        /\ Has(context.testAnswers, "duration") =>
                context.testAnswers.duration = durationOf(sent[4])
    /\ (script = "testSystem" /\ asked(questionText(0))
            /\ Has(testSystem.userAnswers, "level")) =>
        \E n \in 2..UserEntries :
            /\ \A k \in 2..(n - 1) : resolved(0, sent[k]) = {}
            /\ \E o \in resolved(0, sent[n]) :
                    testSystem.userAnswers.level = questions[1].options[o]


\* C24: a response of the endpoint whose status is not 2xx is shown as the
\* reply of a failed request: the text of the catch branch, never a text of
\* the body of the response.
C24_ErrorResponseIsFallback ==
    assist.outcome # waiting /\ assist.outcome.status \notin 200..299
        => assist.shown = soon


\* The placeholders in the chat box
placeholders ==
    Cardinality({i \in 1..Len(assist.chatBox) : assist.chatBox[i].typing})

\* C25: a question submitted in the form does not stay on its placeholder:
\* whenever the chat box holds a placeholder, a reply replaces it later, also
\* when the endpoint never settles the request.
C25_PlaceholderIsReplaced ==
    \A n \in 1..AssistTurns : (placeholders = n) ~> (placeholders < n)


\* C28: while localStorage holds a theme, saved before the page was loaded or
\* by a click on this page, a change of the colour scheme of the system
\* leaves data-theme as it is.
C28_SavedThemeIgnoresSystem ==
    [][theme.storage # nullText /\ theme'.systemDark # theme.systemDark
           => theme'.dataTheme = theme.dataTheme]_vars


\* C29: the root element never carries the class patrol together with one of
\* the classes peek-left, peek-right, peek-top, peek-bottom.
C29_NoPatrolWhilePeeking ==
    "patrol" \in mascot.classList => mascot.classList \cap edges = {}

\* A patrol timer fired during a peek and the peek was left alone
C29_Witness ==
    /\ mascot.last = "patrol"
    /\ mascot.peek = "shown"
    /\ mascot.resumed
    /\ "patrol" \notin mascot.classList


\* The mascot moves: it carries patrol or the class of an edge
moving(m) == m.classList \cap (edges \cup {"patrol"})

\* A peek, a patrol has just started
peekStarted == mascot.last = "doPeek" /\ mascot.peek = "enter"
patrolStarted == mascot.last = "patrol" /\ mascot.walking

\* The document is visible again and reduced motion is not requested
visibleAgain == mascot.resumed /\ ~mascot.hidden /\ ~mascot.reduceMotion

C31_OneTimerOfAKind == mascot.doPeeks <= 1 /\ mascot.patrols <= 1

\* The document was hidden and shown during a peek, and the end of the peek
\* has replaced the peek timer of the listener
C31_Witness ==
    /\ mascot.resumed
    /\ mascot.last = "peekEnd"
    /\ mascot.doPeeks = 1
    /\ mascot.patrols = 1


\* The replies in the chat box
botMessages ==
    Cardinality({i \in 1..Len(assist.chatBox) :
                    assist.chatBox[i].who = "bot" /\ ~assist.chatBox[i].typing})

\* C32: the chat box holds one placeholder for every request whose handler
\* has not finished and one reply for every request whose handler has, in
\* whatever order the requests are settled; none remains when no request is
\* left.
C32_OnePlaceholderPerRequest ==
    /\ placeholders = Len(assist.requests)
    /\ botMessages = assist.submitted - Len(assist.requests)

\* Of two requests in flight one has failed and has been replaced
C32_Witness ==
    /\ assist.submitted = 2
    /\ Len(assist.requests) = 1
    /\ assist.outcome.status = 0
    /\ placeholders = 1
    /\ botMessages = 1


\* C33: the teaser is not visible while the panel is open.
C33_NoTeaserOverOpenPanel == assist.panelOpen => assist.teaserHidden


\* C34: after a click on the toggle, and as long as the colour scheme of the
\* system has not changed since, data-theme is light or dark, localStorage
\* holds the same value and the button shows the sun exactly for dark.
C34_ClickKeepsThemeConsistent ==
    theme.last = "click" =>
        /\ theme.dataTheme \in {<<108, 105, 103, 104, 116>> (* "light" *), <<100, 97, 114, 107>> (* "dark" *)}
        /\ theme.storage = theme.dataTheme
        /\ theme.textContent = <<55356, 57118>> (* "🌞" *) <=> theme.dataTheme = <<100, 97, 114, 107>> (* "dark" *)

\* A click on a page that was loaded with nothing saved
C34_Witness ==
    /\ theme.last = "click"
    /\ theme.listening
    /\ theme.dataTheme = <<100, 97, 114, 107>> (* "dark" *)
    /\ theme.textContent = <<55356, 57118>> (* "🌞" *)


\* C35: the scrolling of the body is locked exactly while the popup of the
\* test is displayed.
C35_ScrollLockedIffPopupShown ==
    home.overflow = "hidden" <=> home.display = "flex"

\* The popup was closed with the Escape key or a click while a submission
\* waits
C35_Witness ==
    /\ home.display = "none"
    /\ home.overflow = ""
    /\ home.saves # <<>>

\* The emails of a list
emails(list) == {list[i] : i \in 1..Len(list)}

\* C36: the list of the subscribers never holds an email twice and never
\* loses an entry, and an empty or malformed email is never added.
C36_SubscribersAreKept ==
    /\ [](Cardinality(emails(home.subscribers)) = Len(home.subscribers))
    /\ [](\A email \in emails(home.subscribers) : validateEmail(email))
    /\ [][/\ Len(home.subscribers) <= Len(home'.subscribers)
          /\ SubSeq(home'.subscribers, 1, Len(home.subscribers))
                 = home.subscribers]_vars

\* An email was sent twice before its first callback ran: the first callback
\* has stored it and the second waits
C36_Witness ==
    /\ home.saves = << <<97, 110, 110, 97, 64, 109, 97, 105, 108, 46, 114, 117>> (* "anna@mail.ru" *) >>
    /\ home.alert = "success"
    /\ home.subscribers = << <<98, 111, 98, 64, 109, 97, 105, 108, 46, 114, 117>> (* "bob@mail.ru" *), <<97, 110, 110, 97, 64, 109, 97, 105, 108, 46,
            114, 117>> (* "anna@mail.ru" *) >>


\* C37: at most one jump is in progress, and whenever no jump is in progress
\* the dino is on the ground.
C37_JumpEndsOnTheGround ==
    /\ game.intervals <= 1
    /\ ~game.dinoJumping => game.bottom = 0

====
